---- MODULE Spec2Model ----
(***************************************************************************)
(* Resumable chunked firmware transfer: the TCP session server             *)
(* (Fota-webserver/server.js, "ENHANCED TCP SERVER WITH HTTP FOTA") and    *)
(* the SIM800L device client (FotaSIM800L).                                *)
(*                                                                         *)
(* Time is counted in minutes (the sweep's timeouts are 10 and 45 minutes).*)
(* A firmware file is (size, data): data names a byte pattern, the bytes   *)
(* themselves are FirmwareByte(data, i).                                   *)
(***************************************************************************)
EXTENDS Integers, Sequences, FiniteSets, TLC

VARIABLES
    now,                \* Date.now(), in minutes
    firmwareDir,        \* FIRMWARE_DIR: version -> [size, data, mtime]
    mtimeClock,         \* source of the files' modification times
    activeSessions,     \* Map sessionId -> session, in insertion order
    sessionCounter,     \* number of session ids generated so far
    deviceConnections,  \* Map clientId -> connection
    totalConnections,   \* performanceMetrics.totalConnections
    retryCount,         \* performanceMetrics.retryCount
    chunksServed,       \* performanceMetrics.chunksServed
    lastResponse,       \* what the last handler wrote to its socket
    device,             \* the device of the end-to-end scenario
    serialAT,           \* the bytes the modem holds for the device to read
    reader,             \* FotaSIM800L: where its reader stands, its buffers
    delivered,          \* the chunk responses that have reached the modem
    checkHandlers,      \* the calls of handleFirmwareCheck, per connection
    dataEvent           \* one socket's 'data' callback: lines, awaits, writes

vars == <<now, firmwareDir, mtimeClock, activeSessions, sessionCounter,
          deviceConnections, totalConnections, retryCount, chunksServed,
          lastResponse, device, serialAT, reader, delivered, checkHandlers,
          dataEvent>>

\* no 'data' callback has run
NoDataEvent == [messages |-> <<>>, awaiting |-> <<>>, written |-> <<>>]

\* what the server's handlers never touch
readerVars == <<serialAT, reader, delivered>>
deviceVars == <<device, readerVars>>

----------------------------------------------------------------------------
(* Program constants *)

DEFAULT_CHUNK_SIZE == 512
MAX_CHUNK_SIZE == 1024
MIN_CHUNK_SIZE == 128
SESSION_TIMEOUT == 45
INTERRUPTED_TIMEOUT == 10
WARMUP_REQUESTS == 5
BUFFER_SIZE == 1024

(* Bounds of the model *)

MaxTime == 5            \* the clock stops here
MaxSessions == 3        \* session ids generated in one run
MaxUploads == 1         \* uploads in one run
MaxRequests == 2        \* requests handled on one connection
MaxRetryCount == 1      \* failed chunk writes counted in one run
MaxDownloads == 2       \* chunks served in one run
MaxConnections == 2     \* connections accepted in one run
MaxSweepTime == 46      \* the clock of the runs with sweeps stops here
MaxMessages == 2        \* chunk responses one reader is sent
MaxSizingRequests == 7  \* requests on the connection of SpecSizing

----------------------------------------------------------------------------
(* Small helpers *)

Min(a, b) == IF a < b THEN a ELSE b
Max(a, b) == IF a > b THEN a ELSE b

\* Math.ceil(a / b) for a >= 0, b > 0
Ceil(a, b) == (a + b - 1) \div b

----------------------------------------------------------------------------
(* Bit operations on naturals, as JavaScript's ^ and >> on small ints *)

RECURSIVE Xor(_, _)
Xor(a, b) ==
    IF a = 0 THEN b
    ELSE IF b = 0 THEN a
    ELSE ((a + b) % 2) + 2 * Xor(a \div 2, b \div 2)

\* x ^ 0xA001 for 0 <= x < 2^15: bit 15 is clear in x, bits 13 and 0 flip
XorA001(x) ==
    x + 32768
      + (IF (x \div 8192) % 2 = 1 THEN -8192 ELSE 8192)
      + (IF x % 2 = 1 THEN -1 ELSE 1)

\* for (j = 0; j < 8; j++) crc = (crc & 1) ? (crc >> 1) ^ 0xA001 : crc >> 1
RECURSIVE Crc16Shift(_, _)
Crc16Shift(crc, j) ==
    IF j = 0 THEN crc
    ELSE Crc16Shift(IF crc % 2 = 1 THEN XorA001(crc \div 2) ELSE crc \div 2,
                    j - 1)

RECURSIVE Crc16From(_, _, _, _)
\* the loop over buffer[lo..hi], split in halves to keep the recursion
\* shallow; the test on left makes the left half's value known before the
\* right half starts
Crc16From(crc, buffer, lo, hi) ==
    IF lo > hi THEN crc
    ELSE IF lo = hi THEN Crc16Shift(Xor(crc, buffer[lo]), 8)
    ELSE LET mid == (lo + hi) \div 2
             left == Crc16From(crc, buffer, lo, mid)
         IN IF left >= 0 THEN Crc16From(left, buffer, mid + 1, hi) ELSE left

\* the same loop started from crc = 0
calculateCRC16FromZero(buffer) == Crc16From(0, buffer, 1, Len(buffer)) % 65536

\* let crc = 0xFFFF; the loop; return crc & 0xFFFF
calculateCRC16(buffer) == Crc16From(65535, buffer, 1, Len(buffer)) % 65536

----------------------------------------------------------------------------
(* Firmware files *)

Versions == {"1.0.0", "1.1.0"}
DataIds == {0, 1}

\* Byte i (from 0) of a firmware body: pattern 0 is a run of '\n' bytes,
\* pattern 1 walks through all byte values ('\n' and '\r' included),
\* pattern 2 is the text "123456789" over and over.
FirmwareByte(data, i) ==
    IF data = 0 THEN 10
    ELSE IF data = 2 THEN 49 + (i % 9)
    ELSE (7 * i + 3) % 256

\* The bytes of [offset, offset + n) of a firmware body
FirmwareBytes(data, offset, n) ==
    [i \in 1..n |-> FirmwareByte(data, offset + i - 1)]

\* crypto.createHash(kind).update(fileBuffer).digest('hex'): a lower-case
\* hex string that names the content; upper tells the case of its letters.
Digest(kind, file) ==
    [kind |-> kind, data |-> file.data, size |-> file.size, upper |-> FALSE]

toLowerCase(hash) == [hash EXCEPT !.upper = FALSE]
toUpperCase(hash) == [hash EXCEPT !.upper = TRUE]

\* files.sort((a, b) => b.mtime - a.mtime)[0]
LatestVersion(dir) ==
    CHOOSE v \in DOMAIN dir : \A w \in DOMAIN dir : dir[w].mtime <= dir[v].mtime

\* getLatestFirmwareInfo(): the snapshot a session keeps; path names the
\* file, which stays in the directory under its version.
getLatestFirmwareInfo(dir) ==
    LET v == LatestVersion(dir) IN
    [ name |-> v, path |-> v, version |-> v, size |-> dir[v].size,
      md5 |-> Digest("md5", dir[v]), sha256 |-> Digest("sha256", dir[v]),
      mtime |-> dir[v].mtime ]

\* getFirmwareChunk(filePath, offset, requestedSize): reads the file that
\* is at filePath now; null when it is gone or offset is past its end.
ReadFails(dir, path, offset) ==
    \/ path \notin DOMAIN dir
    \/ offset >= dir[path].size

\* a read that does not stop at the end of the file
ActualSizePastEnd(requestedSize, totalSize, offset) == requestedSize

\* Math.min(requestedSize, totalSize - offset)
ActualSize(requestedSize, totalSize, offset) ==
    Min(requestedSize, totalSize - offset)

getFirmwareChunk(dir, path, offset, requestedSize) ==
    LET totalSize == dir[path].size
        actualSize == ActualSize(requestedSize, totalSize, offset)
    IN [ chunk |-> FirmwareBytes(dir[path].data, offset, actualSize),
         actualSize |-> actualSize,
         totalSize |-> totalSize ]

----------------------------------------------------------------------------
(* zlib.gzipSync / gunzip, as a run-length codec inside the gzip envelope: *)
(* 10 header bytes, (count, byte) pairs with count in 1..255, 8 trailer    *)
(* bytes.                                                                  *)

GzipHeader == <<31, 139, 8, 0, 0, 0, 0, 0, 0, 3>>
GzipTrailer == <<0, 0, 0, 0, 0, 0, 0, 0>>

RECURSIVE Deflate(_, _, _)
\* bytes[lo..hi] as (count, byte) pairs: one pair when the range is a single
\* run of at most 255 bytes, else the pairs of its two halves
Deflate(bytes, lo, hi) ==
    IF lo > hi THEN <<>>
    ELSE IF hi - lo < 255 /\ \A k \in lo..hi : bytes[k] = bytes[lo]
    THEN <<hi - lo + 1, bytes[lo]>>
    ELSE LET mid == (lo + hi) \div 2
         IN Deflate(bytes, lo, mid) \o Deflate(bytes, mid + 1, hi)

RECURSIVE Inflate(_, _, _)
\* the bytes of pairs number lo..hi
Inflate(pairs, lo, hi) ==
    IF lo > hi THEN <<>>
    ELSE IF lo = hi THEN [k \in 1..pairs[2 * lo - 1] |-> pairs[2 * lo]]
    ELSE LET mid == (lo + hi) \div 2
         IN Inflate(pairs, lo, mid) \o Inflate(pairs, mid + 1, hi)

gzipSync(bytes) == GzipHeader \o Deflate(bytes, 1, Len(bytes)) \o GzipTrailer

gunzip(bytes) ==
    LET pairs == SubSeq(bytes, Len(GzipHeader) + 1, Len(bytes) - Len(GzipTrailer))
    IN Inflate(pairs, 1, Len(pairs) \div 2)

----------------------------------------------------------------------------
(* JSON.stringify of the chunk header, as character codes *)

RECURSIVE Digits(_)
Digits(n) ==
    IF n < 10 THEN <<48 + n>> ELSE Digits(n \div 10) \o <<48 + (n % 10)>>

\* {"s":S,"o":O,"c":C,"f":F,"p":P,"id":ID}
HeaderString(h) ==
    <<123, 34, 115, 34, 58>> \o Digits(h.s) \o
    <<44, 34, 111, 34, 58>> \o Digits(h.o) \o
    <<44, 34, 99, 34, 58>> \o Digits(h.c) \o
    <<44, 34, 102, 34, 58>> \o Digits(h.f) \o
    <<44, 34, 112, 34, 58>> \o Digits(h.p) \o
    <<44, 34, 105, 100, 34, 58>> \o Digits(h.id) \o <<125>>

\* JSON.stringify(minimalHeader) once minimalHeader.h is set:
\* {"s":S,"o":O,"c":C,"f":F,"p":P,"id":ID,"h":H}
WireHeaderString(h, headerCrc16) ==
    SubSeq(HeaderString(h), 1, Len(HeaderString(h)) - 1) \o
    <<44, 34, 104, 34, 58>> \o Digits(headerCrc16) \o <<125>>

\* Math.floor(offset / DEFAULT_CHUNK_SIZE), & 0xFF unless totalChunks > 255
ChunkId(offset, totalChunks) ==
    IF totalChunks > 255 THEN offset \div DEFAULT_CHUNK_SIZE
    ELSE (offset \div DEFAULT_CHUNK_SIZE) % 256

\* a decision that compresses whenever the request asks for it
UseCompressedAlways(useCompression, chunk, compressedChunk) == useCompression

\* The compression decision and the header of handleFirmwareDownload
UseCompressed(useCompression, chunk, compressedChunk) ==
    /\ useCompression
    /\ Len(chunk) > 100
    /\ Len(compressedChunk) * 100 < Len(chunk) * 85

\* a header whose c is the CRC of the bytes sent, compressed or not
BuildChunkResponseCrcOfSent(firmwareData, offset, useCompression, totalChunks) ==
    LET chunk == firmwareData.chunk
        compressedChunk == gzipSync(chunk)
        compressed == UseCompressed(useCompression, chunk, compressedChunk)
        finalChunk == IF compressed THEN compressedChunk ELSE chunk
        minimalHeader ==
            [ s |-> Len(finalChunk),
              o |-> offset,
              c |-> calculateCRC16(finalChunk),
              f |-> IF compressed THEN 1 ELSE 0,
              p |-> ((offset + firmwareData.actualSize) * 100)
                        \div firmwareData.totalSize,
              id |-> ChunkId(offset, totalChunks) ]
    IN [ header |-> minimalHeader,
         h |-> calculateCRC16(HeaderString(minimalHeader)),
         actualSize |-> firmwareData.actualSize,
         payloadLength |-> Len(finalChunk) ]

BuildChunkResponse(firmwareData, offset, useCompression, totalChunks) ==
    LET chunk == firmwareData.chunk
        dataCrc16 == calculateCRC16(chunk)
        compressedChunk == gzipSync(chunk)
        compressed == UseCompressed(useCompression, chunk, compressedChunk)
        finalChunk == IF compressed THEN compressedChunk ELSE chunk
        minimalHeader ==
            [ s |-> Len(finalChunk),
              o |-> offset,
              c |-> dataCrc16,
              f |-> IF compressed THEN 1 ELSE 0,
              p |-> ((offset + firmwareData.actualSize) * 100)
                        \div firmwareData.totalSize,
              id |-> ChunkId(offset, totalChunks) ]
    IN [ header |-> minimalHeader,
         h |-> calculateCRC16(HeaderString(minimalHeader)),
         actualSize |-> firmwareData.actualSize,
         payloadLength |-> Len(finalChunk) ]

----------------------------------------------------------------------------
(* Inputs of the model *)

Clients == {"c1", "c2"}
Devices == {"devA", "devB"}
OneClient == {"c1"}
OneDevice == {"devA"}
FileSizes == {130, 600}
Offsets == {0, 128, 600}
\* request.size: absent (0), below MIN_CHUNK_SIZE, above MAX_CHUNK_SIZE;
\* all even, so that chunkSize / 2 is a whole number
RequestSizes == {0, 64}
TimeSteps == {5}
\* steps that put the clock on both sides of the sweep's two timeouts
SweepSteps == {10, 36, 45}
\* the bodies an administrator uploads: <<version, size, data>>
Uploads == {<<"1.0.0", 600, 0>>, <<"1.1.0", 130, 1>>}
SessionIds == 1..MaxSessions

\* the end-to-end scenario: an artifact of 2000 bytes, and the chunk sizes
\* a device may ask for (below MIN_CHUNK_SIZE, two inside the range, above
\* MAX_CHUNK_SIZE)
E2EArtifact == [size |-> 2000, data |-> 1, mtime |-> 0]
E2ERequestSizes == {64, 256, 512, 2048}

\* the chunk size handleFirmwareDownload can pass to getFirmwareChunk
ChunkSizes ==
    { Max(MIN_CHUNK_SIZE, Min(MAX_CHUNK_SIZE, n)) :
        n \in { IF r = 0 THEN DEFAULT_CHUNK_SIZE ELSE r : r \in RequestSizes }
              \cup { Max(MIN_CHUNK_SIZE,
                         (IF r = 0 THEN DEFAULT_CHUNK_SIZE ELSE r) \div 2) :
                     r \in RequestSizes } }

----------------------------------------------------------------------------
(* The chunk responses of the bodies and requests above, computed once *)

RegistryKeys ==
    { k \in DataIds \X FileSizes \X Offsets \X ChunkSizes \X BOOLEAN
            \X { Ceil(n, DEFAULT_CHUNK_SIZE) : n \in FileSizes } :
        k[3] < k[2] }

\* the requests of the end-to-end device: offsets 0, k, 2k, ..., served
\* with k clamped, or halved and clamped
E2EKeys ==
    UNION { { <<E2EArtifact.data, E2EArtifact.size, k * i, c, FALSE,
                Ceil(E2EArtifact.size, DEFAULT_CHUNK_SIZE)>> :
              i \in 0..((E2EArtifact.size - 1) \div k),
              c \in { Max(MIN_CHUNK_SIZE, Min(MAX_CHUNK_SIZE, k)),
                      Max(MIN_CHUNK_SIZE, Min(MAX_CHUNK_SIZE, k \div 2)) } } :
            k \in E2ERequestSizes }

\* the requests of SpecSizing: sizes below, inside (one odd) and above
\* the limits, as asked, halved, and clamped
SizingSizes == {64, 301, 512, 2048}
SizingOffsets == {0, 512}
SizingKeys ==
    { <<0, 600, o, c, FALSE, Ceil(600, DEFAULT_CHUNK_SIZE)>> :
        o \in SizingOffsets,
        c \in UNION { { r, r \div 2,
                        Max(MIN_CHUNK_SIZE, Min(MAX_CHUNK_SIZE, r)),
                        Max(MIN_CHUNK_SIZE, Min(MAX_CHUNK_SIZE, r \div 2)) } :
                      r \in SizingSizes } }

\* the requests of SpecCrc: a body of the first n bytes of "123456789",
\* read from any offset to its end
CrcFileSizes == 1..9
CrcKeys ==
    { <<2, n, o, DEFAULT_CHUNK_SIZE, FALSE, Ceil(n, DEFAULT_CHUNK_SIZE)>> :
        n \in CrcFileSizes, o \in 0..8 }

ChunkKeys == RegistryKeys \cup E2EKeys \cup SizingKeys \cup CrcKeys

\* (@@ makes the table an explicit one: each entry is computed once)
ChunkResponses ==
    <<>> @@
    [ k \in ChunkKeys |->
        BuildChunkResponse(
            [ chunk |-> FirmwareBytes(k[1], k[3], ActualSize(k[4], k[2], k[3])),
              actualSize |-> ActualSize(k[4], k[2], k[3]),
              totalSize |-> k[2] ],
            k[3], k[5], k[6]) ]

\* handleFirmwareDownload from the read to the header, for a readable chunk
\* The payload is kept as the range of the body it was read from;
\* PayloadBytes gives its bytes.
ChunkResponse(dir, path, offset, chunkSize, useCompression, totalChunks) ==
    LET r == ChunkResponses[<<dir[path].data, dir[path].size, offset, chunkSize,
                              useCompression, totalChunks>>]
    IN [ kind |-> "chunk",
         header |-> r.header,
         h |-> r.h,
         actualSize |-> r.actualSize,
         payload |-> [ data |-> dir[path].data, offset |-> offset,
                       size |-> r.actualSize,
                       compressed |-> r.header.f = 1 ] ]

\* finalChunk: the bytes sendTcpResponseWithLengthPrefix writes after the
\* header line
PayloadBytes(payload) ==
    IF payload.compressed
    THEN gzipSync(FirmwareBytes(payload.data, payload.offset, payload.size))
    ELSE FirmwareBytes(payload.data, payload.offset, payload.size)

\* sendTcpResponseWithLengthPrefix: Buffer.concat of the header string
\* plus '\n' and the binary data
Wire(response) ==
    WireHeaderString(response.header, response.h) \o <<10>> \o
    PayloadBytes(response.payload)

----------------------------------------------------------------------------
(* Sessions and connections *)

NoSession == 0          \* currentSession: null
Undefined == -1         \* interruptedAt of a session never interrupted
NoResponse == [kind |-> "none"]
NoDevice == [state |-> "off"]
NoReader == [pc |-> "off"]

\* position of sessionId in the Map's insertion order, 0 when absent
SessionIndex(sessions, sessionId) ==
    IF \E i \in 1..Len(sessions) : sessions[i].sessionId = sessionId
    THEN CHOOSE i \in 1..Len(sessions) : sessions[i].sessionId = sessionId
    ELSE 0

HasSession(sessions, sessionId) == SessionIndex(sessions, sessionId) # 0
GetSession(sessions, sessionId) == sessions[SessionIndex(sessions, sessionId)]

\* for (... of activeSessions.entries())
\*   if (session.deviceId === deviceId && !session.completed) ... break
ExistingSessionIndex(sessions, deviceId) ==
    LET open == { i \in 1..Len(sessions) :
                    sessions[i].deviceId = deviceId /\ ~sessions[i].completed }
    IN IF open = {} THEN 0
       ELSE CHOOSE i \in open : \A j \in open : i <= j

\* a check that never takes the session it finds
ResumesNothing(sessions, deviceId, firmwareInfo) == FALSE

\* existingSession && existingSession.session.firmwareInfo.version
\*                      === firmwareInfo.version
ResumesExisting(sessions, deviceId, firmwareInfo) ==
    LET i == ExistingSessionIndex(sessions, deviceId)
    IN i # 0 /\ sessions[i].firmwareInfo.version = firmwareInfo.version

NewSession(sessionId, clientId, deviceId, firmwareInfo, startTime) ==
    [ sessionId |-> sessionId,
      clientId |-> clientId,
      deviceId |-> deviceId,
      firmwareInfo |-> firmwareInfo,
      startTime |-> startTime,
      chunks |-> <<>>,
      totalChunks |-> Ceil(firmwareInfo.size, DEFAULT_CHUNK_SIZE),
      downloadedChunks |-> 0,
      lastOffset |-> 0,
      completed |-> FALSE,
      interrupted |-> FALSE,
      interruptedAt |-> Undefined ]

NewConnection == [ chunksRequested |-> 0, currentSession |-> NoSession ]

\* a sweep without the absolute timeout
ShouldCleanupNoAbsolute(session, t) ==
    \/ session.completed
    \/ /\ session.interrupted
       /\ session.interruptedAt # Undefined
       /\ t - session.interruptedAt > INTERRUPTED_TIMEOUT

\* the sweep's shouldCleanup
ShouldCleanup(session, t) ==
    \/ session.completed
    \/ /\ session.interrupted
       /\ session.interruptedAt # Undefined
       /\ t - session.interruptedAt > INTERRUPTED_TIMEOUT
    \/ t - session.startTime > SESSION_TIMEOUT

\* a sweep that gives interrupted sessions no time
RetainedNoGrace(sessions, t) ==
    SelectSeq(sessions,
              LAMBDA s : ~(s.interrupted \/ ShouldCleanup(s, t)))

RECURSIVE Retained(_, _)
\* activeSessions after the sweep's deletions, order kept
Retained(sessions, t) ==
    IF sessions = <<>> THEN <<>>
    ELSE IF ShouldCleanup(Head(sessions), t) THEN Retained(Tail(sessions), t)
    ELSE <<Head(sessions)>> \o Retained(Tail(sessions), t)

\* a Map entry set: offset -> [size, crc]
SetChunk(chunks, offset, entry) ==
    [ o \in DOMAIN chunks \cup {offset} |->
        IF o = offset THEN entry ELSE chunks[o] ]

----------------------------------------------------------------------------
(* The server's state after start: empty maps, an empty firmware directory *)

Init ==
    /\ now = 0
    /\ firmwareDir = <<>>
    /\ mtimeClock = 0
    /\ activeSessions = <<>>
    /\ sessionCounter = 0
    /\ deviceConnections = <<>>
    /\ totalConnections = 0
    /\ retryCount = 0
    /\ chunksServed = 0
    /\ lastResponse = NoResponse
    /\ device = NoDevice
    /\ serialAT = <<>>
    /\ reader = NoReader
    /\ delivered = <<>>
    /\ checkHandlers = <<>>
    /\ dataEvent = NoDataEvent

----------------------------------------------------------------------------
(* Connections *)

\* net.createServer callback: a device connects
Connect(clientId) ==
    /\ UNCHANGED <<deviceVars, checkHandlers, dataEvent>>
    /\ clientId \notin DOMAIN deviceConnections
    /\ deviceConnections' =
         [ c \in DOMAIN deviceConnections \cup {clientId} |->
             IF c = clientId THEN NewConnection ELSE deviceConnections[c] ]
    /\ totalConnections' = totalConnections + 1
    /\ UNCHANGED <<now, firmwareDir, mtimeClock, activeSessions, sessionCounter,
                   retryCount, chunksServed, lastResponse>>

\* the session cleanupConnection marks, NoSession when there is none
InterruptedBy(connections, sessions, clientId) ==
    IF HasSession(sessions, connections[clientId].currentSession)
    THEN connections[clientId].currentSession
    ELSE NoSession

\* a drop that marks every session of the registry
MarkInterruptedAll(sessions, sessionId, t) ==
    [ i \in 1..Len(sessions) |->
        [sessions[i] EXCEPT !.interrupted = TRUE, !.interruptedAt = t] ]

\* a drop that deletes the session it finds
MarkInterruptedDeletes(sessions, sessionId, t) ==
    SelectSeq(sessions, LAMBDA s : s.sessionId # sessionId)

MarkInterrupted(sessions, sessionId, t) ==
    [ i \in 1..Len(sessions) |->
        IF sessions[i].sessionId = sessionId
        THEN [sessions[i] EXCEPT !.interrupted = TRUE, !.interruptedAt = t]
        ELSE sessions[i] ]

\* socket 'close', 'error' or 'timeout'
cleanupConnection(clientId) ==
    /\ UNCHANGED <<deviceVars, checkHandlers, dataEvent>>
    /\ clientId \in DOMAIN deviceConnections
    /\ activeSessions' =
         MarkInterrupted(activeSessions,
                         InterruptedBy(deviceConnections, activeSessions, clientId),
                         now)
    /\ deviceConnections' =
         [ c \in DOMAIN deviceConnections \ {clientId} |-> deviceConnections[c] ]
    /\ lastResponse' = NoResponse
    /\ UNCHANGED <<now, firmwareDir, mtimeClock, sessionCounter, retryCount, chunksServed, totalConnections>>

\* handleTcpRequest: connection.chunksRequested++
CountRequest(connections, clientId) ==
    [connections EXCEPT ![clientId].chunksRequested = @ + 1]

\* socket 'data': a request line arrives on an open connection
CanRequest(clientId) == clientId \in DOMAIN deviceConnections

\* what reaches the device: nothing when socket.write fails
Written(response, writeOk) == IF writeOk THEN response ELSE NoResponse

\* an error object whose code is empty
ErrorResponseNoCode(code) == [kind |-> "error", code |-> "", retryable |-> FALSE]

\* an error object flagged retryable: true
ErrorResponseRetryable(code) == [kind |-> "error", code |-> code, retryable |-> TRUE]

\* { status: 'error', message, code }: the error objects of the request
\* handlers; none of them has a retryable field (the one object with
\* retryable: true is DOWNLOAD_ERROR, which the catch of
\* handleFirmwareDownload writes to a socket whose write has just failed)
ErrorResponse(code) == [kind |-> "error", code |-> code, retryable |-> FALSE]

----------------------------------------------------------------------------
(* check *)

CheckResponse(session, firmwareInfo) ==
    [ kind |-> "check",
      version |-> firmwareInfo.version,
      size |-> firmwareInfo.size,
      md5 |-> firmwareInfo.md5,
      sha256 |-> firmwareInfo.sha256,
      sessionId |-> session.sessionId,
      chunkSize |-> DEFAULT_CHUNK_SIZE,
      totalChunks |-> session.totalChunks,
      resumeOffset |-> session.lastOffset,
      downloadedChunks |-> session.downloadedChunks ]

handleFirmwareCheck(clientId, deviceId, writeOk) ==
    /\ UNCHANGED <<deviceVars, checkHandlers, dataEvent>>
    /\ CanRequest(clientId)
    /\ UNCHANGED <<now, firmwareDir, mtimeClock, retryCount, chunksServed, totalConnections>>
    /\ IF DOMAIN firmwareDir = {}
       THEN /\ deviceConnections' = CountRequest(deviceConnections, clientId)
            /\ lastResponse' = Written(ErrorResponse("NO_FIRMWARE"), writeOk)
            /\ UNCHANGED <<activeSessions, sessionCounter>>
       ELSE LET firmwareInfo == getLatestFirmwareInfo(firmwareDir)
                i == ExistingSessionIndex(activeSessions, deviceId)
            IN IF ResumesExisting(activeSessions, deviceId, firmwareInfo)
               THEN /\ activeSessions' =
                         [activeSessions EXCEPT ![i].interrupted = FALSE]
                    /\ UNCHANGED sessionCounter
                    /\ deviceConnections' =
                         [CountRequest(deviceConnections, clientId)
                            EXCEPT ![clientId].currentSession =
                                       activeSessions[i].sessionId]
                    /\ lastResponse' =
                         Written(CheckResponse(activeSessions[i], firmwareInfo),
                                 writeOk)
               ELSE LET session == NewSession(sessionCounter + 1, clientId,
                                              deviceId, firmwareInfo, now)
                    IN /\ sessionCounter' = sessionCounter + 1
                       /\ activeSessions' = Append(activeSessions, session)
                       /\ deviceConnections' =
                            [CountRequest(deviceConnections, clientId)
                               EXCEPT ![clientId].currentSession =
                                          session.sessionId]
                       /\ lastResponse' =
                            Written(CheckResponse(session, firmwareInfo), writeOk)

----------------------------------------------------------------------------
(* download *)

\* let chunkSize = request.size || DEFAULT_CHUNK_SIZE
RequestedChunkSize(size) == IF size = 0 THEN DEFAULT_CHUNK_SIZE ELSE size

\* connection.chunksRequested > 5 && retryCount / chunksRequested > 0.15
ErrorRateHigh(chunksRequested, retries) ==
    /\ chunksRequested > WARMUP_REQUESTS
    /\ retries * 100 > 15 * chunksRequested

\* adaptive halving with no clamp after it
AppliedChunkSizeUnclamped(size, chunksRequested, retries) ==
    LET chunkSize == RequestedChunkSize(size)
    IN IF ErrorRateHigh(chunksRequested, retries)
       THEN chunkSize \div 2
       ELSE chunkSize

\* adaptive halving, then the clamp to [MIN_CHUNK_SIZE, MAX_CHUNK_SIZE];
\* the whole part of the size when chunkSize / 2 is not a whole number
AppliedChunkSize(size, chunksRequested, retries) ==
    LET chunkSize == RequestedChunkSize(size)
        adapted == IF ErrorRateHigh(chunksRequested, retries)
                   THEN Max(MIN_CHUNK_SIZE, chunkSize \div 2)
                   ELSE chunkSize
    IN Max(Min(adapted, MAX_CHUNK_SIZE), MIN_CHUNK_SIZE)

\* chunkSize / 2 of an odd chunkSize is not a whole number, and stays so
\* through Math.max and Math.min when it lies between the two limits
HalvedToFraction(size, chunksRequested, retries) ==
    LET chunkSize == RequestedChunkSize(size)
    IN /\ ErrorRateHigh(chunksRequested, retries)
       /\ chunkSize % 2 = 1
       /\ 2 * MIN_CHUNK_SIZE < chunkSize
       /\ chunkSize < 2 * MAX_CHUNK_SIZE

\* getFirmwareChunk with a requestedSize that is not a whole number:
\* actualSize is requestedSize unless fewer bytes are left, the buffer and
\* the read take its whole part, and bytesRead !== actualSize throws
ReadMismatch(dir, path, offset, wholePart, fraction) ==
    /\ fraction
    /\ dir[path].size - offset > wholePart

\* an update that takes the end of the last chunk served
RecordChunkLast(session, offset, actualSize, crc) ==
    [ session EXCEPT
        !.chunks = SetChunk(@, offset, [size |-> actualSize, crc |-> crc]),
        !.downloadedChunks = @ + 1,
        !.lastOffset = offset + actualSize ]

\* an update that records DEFAULT_CHUNK_SIZE as the size of every chunk
RecordChunkDefaultSize(session, offset, actualSize, crc) ==
    [ session EXCEPT
        !.chunks = SetChunk(@, offset, [size |-> DEFAULT_CHUNK_SIZE, crc |-> crc]),
        !.downloadedChunks = @ + 1,
        !.lastOffset = Max(@, offset + actualSize) ]

\* session.chunks.set; session.downloadedChunks++; session.lastOffset = max
RecordChunk(session, offset, actualSize, crc) ==
    [ session EXCEPT
        !.chunks = SetChunk(@, offset, [size |-> actualSize, crc |-> crc]),
        !.downloadedChunks = @ + 1,
        !.lastOffset = Max(@, offset + actualSize) ]

handleFirmwareDownload(clientId, sessionId, offset, size, useCompression, writeOk) ==
    /\ UNCHANGED <<deviceVars, checkHandlers, dataEvent>>
    /\ CanRequest(clientId)
    /\ deviceConnections' = CountRequest(deviceConnections, clientId)
    /\ UNCHANGED <<now, firmwareDir, mtimeClock, sessionCounter, totalConnections>>
    /\ IF ~HasSession(activeSessions, sessionId)
       THEN /\ lastResponse' = Written(ErrorResponse("INVALID_SESSION"), writeOk)
            /\ UNCHANGED <<activeSessions, retryCount, chunksServed>>
       ELSE LET i == SessionIndex(activeSessions, sessionId)
                session == activeSessions[i]
                path == session.firmwareInfo.path
                chunkSize ==
                    AppliedChunkSize(
                        size,
                        deviceConnections'[clientId].chunksRequested,
                        retryCount)
                fraction ==
                    HalvedToFraction(
                        size,
                        deviceConnections'[clientId].chunksRequested,
                        retryCount)
            IN IF \/ ReadFails(firmwareDir, path, offset)
                  \/ ReadMismatch(firmwareDir, path, offset, chunkSize, fraction)
               THEN /\ lastResponse' = Written(ErrorResponse("READ_ERROR"), writeOk)
                    /\ UNCHANGED <<activeSessions, retryCount, chunksServed>>
               ELSE LET response ==
                            ChunkResponse(firmwareDir, path, offset, chunkSize,
                                          useCompression, session.totalChunks)
                    IN /\ activeSessions' =
                            [ activeSessions EXCEPT
                                ![i] = RecordChunk(session, offset,
                                                   response.actualSize,
                                                   response.header.c) ]
                       /\ chunksServed' = chunksServed + 1
                       /\ retryCount' =
                            IF writeOk THEN retryCount ELSE retryCount + 1
                       /\ lastResponse' = Written(response, writeOk)

----------------------------------------------------------------------------
(* resume *)

ResumeResponse(session) ==
    [ kind |-> "resume",
      lastOffset |-> session.lastOffset,
      downloadedChunks |-> session.downloadedChunks,
      totalChunks |-> session.totalChunks,
      sessionId |-> session.sessionId,
      firmwareSize |-> session.firmwareInfo.size,
      chunkSize |-> DEFAULT_CHUNK_SIZE ]

\* a rebinding that forgets to clear interrupted
RebindStillInterrupted(session, clientId) ==
    [session EXCEPT !.clientId = clientId]

\* session.clientId = clientId; session.interrupted = false
Rebind(session, clientId) ==
    [session EXCEPT !.clientId = clientId, !.interrupted = FALSE]

handleDownloadResume(clientId, sessionId, writeOk) ==
    /\ UNCHANGED <<deviceVars, checkHandlers, dataEvent>>
    /\ CanRequest(clientId)
    /\ UNCHANGED <<now, firmwareDir, mtimeClock, sessionCounter, retryCount, chunksServed, totalConnections>>
    /\ IF ~HasSession(activeSessions, sessionId)
       THEN /\ deviceConnections' = CountRequest(deviceConnections, clientId)
            /\ lastResponse' = Written(ErrorResponse("INVALID_SESSION"), writeOk)
            /\ UNCHANGED activeSessions
       ELSE LET i == SessionIndex(activeSessions, sessionId)
            IN /\ deviceConnections' =
                    [CountRequest(deviceConnections, clientId)
                       EXCEPT ![clientId].currentSession = sessionId]
               /\ activeSessions' =
                    [activeSessions EXCEPT ![i] = Rebind(@, clientId)]
               /\ lastResponse' =
                    Written(ResumeResponse(activeSessions[i]), writeOk)

----------------------------------------------------------------------------
(* verify *)

NoHash == [kind |-> "undefined", data |-> 0, size |-> 0, upper |-> FALSE]

\* hashType === 'sha256' ? firmwareInfo.sha256 : firmwareInfo.md5
ExpectedHash(session, hashType) ==
    IF hashType = "sha256" THEN session.firmwareInfo.sha256
    ELSE session.firmwareInfo.md5

\* a comparison that minds the case of the letters
HashMatchesExactly(clientHash, expectedHash) == clientHash = expectedHash

\* clientHash.toLowerCase() === expectedHash.toLowerCase()
HashMatches(clientHash, expectedHash) ==
    toLowerCase(clientHash) = toLowerCase(expectedHash)

VerifyResponse(isValid, expectedHash, clientHash, hashType) ==
    [ kind |-> "verify",
      verified |-> isValid,
      expectedHash |-> expectedHash,
      receivedHash |-> clientHash,
      hashType |-> hashType ]

\* request.hashType || 'md5'
RequestedHashType(hashType) == IF hashType = "" THEN "md5" ELSE hashType

handleFirmwareVerify(clientId, sessionId, clientHash, hashTypeField, writeOk) ==
    /\ UNCHANGED <<deviceVars, checkHandlers, dataEvent>>
    /\ CanRequest(clientId)
    /\ deviceConnections' = CountRequest(deviceConnections, clientId)
    /\ UNCHANGED <<now, firmwareDir, mtimeClock, sessionCounter, retryCount, chunksServed, totalConnections>>
    /\ IF ~HasSession(activeSessions, sessionId)
       THEN /\ lastResponse' = Written(ErrorResponse("INVALID_SESSION"), writeOk)
            /\ UNCHANGED activeSessions
       ELSE IF clientHash = NoHash
       THEN \* undefined.toLowerCase() throws: the catch answers VERIFY_ERROR
            /\ lastResponse' = Written(ErrorResponse("VERIFY_ERROR"), writeOk)
            /\ UNCHANGED activeSessions
       ELSE LET i == SessionIndex(activeSessions, sessionId)
                hashType == RequestedHashType(hashTypeField)
                expectedHash == ExpectedHash(activeSessions[i], hashType)
                isValid == HashMatches(clientHash, expectedHash)
            IN /\ activeSessions' =
                    IF isValid
                    THEN [activeSessions EXCEPT ![i].completed = TRUE]
                    ELSE activeSessions
               /\ lastResponse' =
                    Written(VerifyResponse(isValid, expectedHash, clientHash,
                                           hashType),
                            writeOk)

----------------------------------------------------------------------------
(* Requests handleTcpRequest rejects itself *)

\* a line that is not JSON (JSON.parse throws before the request is
\* counted), or a request with an unknown action (counted, then thrown)
handleBadRequest(clientId, parses, writeOk) ==
    /\ UNCHANGED <<deviceVars, checkHandlers, dataEvent>>
    /\ CanRequest(clientId)
    /\ deviceConnections' =
         IF parses THEN CountRequest(deviceConnections, clientId)
         ELSE deviceConnections
    /\ lastResponse' = Written(ErrorResponse("REQUEST_ERROR"), writeOk)
    /\ UNCHANGED <<now, firmwareDir, mtimeClock, activeSessions, sessionCounter,
                   retryCount, chunksServed, totalConnections>>

----------------------------------------------------------------------------
(* The sweep timer, the clock, and the firmware directory *)

\* setInterval(() => { ... activeSessions.delete(sessionId) ... })
SessionCleanup ==
    /\ UNCHANGED <<deviceVars, checkHandlers, dataEvent>>
    /\ activeSessions' = Retained(activeSessions, now)
    /\ lastResponse' = NoResponse
    /\ UNCHANGED <<now, firmwareDir, mtimeClock, sessionCounter,
                   deviceConnections, retryCount, chunksServed, totalConnections>>

AdvanceTime(minutes) ==
    /\ UNCHANGED <<deviceVars, checkHandlers, dataEvent>>
    /\ now' = now + minutes
    /\ UNCHANGED <<firmwareDir, mtimeClock, activeSessions, sessionCounter,
                   deviceConnections, totalConnections, retryCount, chunksServed,
                   lastResponse>>

\* POST /api/firmware/upload: fs.writeFileSync(esp32_firmware_v<version>.bin)
UploadFirmware(version, size, data) ==
    /\ UNCHANGED <<deviceVars, checkHandlers, dataEvent>>
    /\ mtimeClock' = mtimeClock + 1
    /\ firmwareDir' =
         [ v \in DOMAIN firmwareDir \cup {version} |->
             IF v = version
             THEN [size |-> size, data |-> data, mtime |-> mtimeClock + 1]
             ELSE firmwareDir[v] ]
    /\ lastResponse' = NoResponse
    /\ UNCHANGED <<now, activeSessions, sessionCounter, deviceConnections,
                   retryCount, chunksServed, totalConnections>>

\* DELETE /api/firmware/delete/:filename: fs.unlinkSync
DeleteFirmware(version) ==
    /\ UNCHANGED <<deviceVars, checkHandlers, dataEvent>>
    /\ version \in DOMAIN firmwareDir
    /\ firmwareDir' =
         [ v \in DOMAIN firmwareDir \ {version} |-> firmwareDir[v] ]
    /\ lastResponse' = NoResponse
    /\ UNCHANGED <<now, mtimeClock, activeSessions, sessionCounter,
                   deviceConnections, retryCount, chunksServed, totalConnections>>

----------------------------------------------------------------------------
(* The hashes a device may send for a session: none, the digests of the   *)
(* session's snapshot in either case, and a digest of other content       *)

WrongHash == [kind |-> "md5", data |-> 9, size |-> 9, upper |-> FALSE]

VerifyHashes(sessionId) ==
    {NoHash, WrongHash} \cup
    IF HasSession(activeSessions, sessionId)
    THEN LET info == GetSession(activeSessions, sessionId).firmwareInfo
         IN {toUpperCase(info.md5), info.sha256}
    ELSE {}

\* request.hashType: absent, sha256, some other name
HashTypes == {"", "sha256", "crc32"}

----------------------------------------------------------------------------
(* The registry under requests, drops, uploads and sweeps.  The guards    *)
(* that name a bound are the model's, not the server's.                    *)

WithinRequests(clientId) ==
    /\ clientId \in DOMAIN deviceConnections
    /\ deviceConnections[clientId].chunksRequested < MaxRequests

\* a check that has to generate a session id still has one to take
WithinSessions(deviceId) ==
    IF DOMAIN firmwareDir = {} THEN TRUE
    ELSE IF ResumesExisting(activeSessions, deviceId,
                            getLatestFirmwareInfo(firmwareDir)) THEN TRUE
    ELSE sessionCounter < MaxSessions

WithinDownloads(writeOk) ==
    /\ chunksServed < MaxDownloads
    /\ IF writeOk THEN TRUE ELSE retryCount < MaxRetryCount

\* the session ids a device can have been given, and one it cannot
RequestableIds == { sid \in SessionIds : sid <= sessionCounter + 1 }

\* the server starts with one firmware file in FIRMWARE_DIR
InitStocked ==
    /\ now = 0
    /\ firmwareDir = [ v \in {"1.0.0"} |-> [size |-> 600, data |-> 0, mtime |-> 0] ]
    /\ mtimeClock = 0
    /\ activeSessions = <<>>
    /\ sessionCounter = 0
    /\ deviceConnections = <<>>
    /\ totalConnections = 0
    /\ retryCount = 0
    /\ chunksServed = 0
    /\ lastResponse = NoResponse
    /\ device = NoDevice
    /\ serialAT = <<>>
    /\ reader = NoReader
    /\ delivered = <<>>
    /\ checkHandlers = <<>>
    /\ dataEvent = NoDataEvent

\* Registry: two connections, two devices, one stored firmware; a device
\* checks, asks for the first chunk, resumes; connections drop.
Next ==
    \/ \E c \in Clients :
         totalConnections < MaxConnections /\ Connect(c)
    \/ \E c \in Clients : cleanupConnection(c)
    \/ \E c \in Clients, d \in Devices :
         WithinRequests(c) /\ WithinSessions(d) /\ handleFirmwareCheck(c, d, TRUE)
    \/ \E c \in Clients :
         /\ WithinRequests(c)
         /\ WithinDownloads(TRUE)
         /\ handleFirmwareDownload(c, deviceConnections[c].currentSession,
                                   0, 0, FALSE, TRUE)
    \/ \E c \in Clients, sid \in RequestableIds :
         WithinRequests(c) /\ handleDownloadResume(c, sid, TRUE)
    \/ \E m \in TimeSteps : now + m <= MaxTime /\ AdvanceTime(m)

Spec == InitStocked /\ [][Next]_vars

\* Verification: one device checks, asks for the first chunk and verifies
\* with no hash, a wrong one, its MD5 in upper case or its SHA-256, naming a
\* hash type or not; the connection drops; the sweep runs.
NextVerify ==
    \/ \E c \in OneClient :
         totalConnections < MaxConnections /\ Connect(c)
    \/ \E c \in OneClient : cleanupConnection(c)
    \/ \E c \in OneClient, d \in OneDevice :
         WithinRequests(c) /\ WithinSessions(d) /\ handleFirmwareCheck(c, d, TRUE)
    \/ \E c \in OneClient :
         /\ WithinRequests(c)
         /\ WithinDownloads(TRUE)
         /\ handleFirmwareDownload(c, deviceConnections[c].currentSession,
                                   0, 0, FALSE, TRUE)
    \/ \E c \in OneClient, sid \in SessionIds :
         \E h \in VerifyHashes(sid), hashType \in HashTypes :
            WithinRequests(c) /\ handleFirmwareVerify(c, sid, h, hashType, TRUE)
    \/ SessionCleanup

SpecVerify == InitStocked /\ [][NextVerify]_vars

\* Catalog changes: a device checks and asks for the first chunk while an
\* administrator uploads firmware; the connection drops and is made again.
NextSupersede ==
    \/ \E c \in OneClient :
         totalConnections < MaxConnections /\ Connect(c)
    \/ \E c \in OneClient : cleanupConnection(c)
    \/ \E c \in OneClient, d \in Devices :
         WithinRequests(c) /\ WithinSessions(d) /\ handleFirmwareCheck(c, d, TRUE)
    \/ \E c \in OneClient :
         /\ WithinRequests(c)
         /\ WithinDownloads(TRUE)
         /\ handleFirmwareDownload(c, deviceConnections[c].currentSession,
                                   0, 0, FALSE, TRUE)
    \/ \E u \in Uploads :
         mtimeClock < MaxUploads /\ UploadFirmware(u[1], u[2], u[3])

SpecSupersede == InitStocked /\ [][NextSupersede]_vars

\* Sizing: a device checks and asks for chunks of any size on one
\* connection, long enough for the error rate to count, while socket
\* writes may fail.
NextSizing ==
    \/ /\ totalConnections < 1
       /\ Connect("c1")
    \/ /\ activeSessions = <<>>
       /\ handleFirmwareCheck("c1", "devA", TRUE)
    \/ \E offset \in SizingOffsets, size \in SizingSizes, writeOk \in BOOLEAN :
         /\ activeSessions # <<>>
         /\ deviceConnections["c1"].chunksRequested < MaxSizingRequests
         /\ writeOk \/ retryCount < MaxRetryCount
         /\ handleFirmwareDownload("c1", deviceConnections["c1"].currentSession,
                                   offset, size, FALSE, writeOk)

SpecSizing == InitStocked /\ [][NextSizing]_vars

\* the bodies of SpecSnapshot's uploads: a newer version, and version 1.0.0
\* again with another body
Reuploads == {<<"1.1.0", 130, 1>>, <<"1.0.0", 130, 1>>, <<"1.0.0", 600, 1>>}

\* Uploads during a session: a device checks, asks for chunks of its
\* session and verifies with the MD5 the check declared, while an
\* administrator uploads firmware.
NextSnapshot ==
    \/ \E c \in OneClient :
         totalConnections < MaxConnections /\ Connect(c)
    \/ \E c \in OneClient : cleanupConnection(c)
    \/ \E c \in OneClient, d \in OneDevice :
         WithinRequests(c) /\ WithinSessions(d) /\ handleFirmwareCheck(c, d, TRUE)
    \/ \E c \in OneClient, offset \in Offsets :
         /\ WithinRequests(c)
         /\ WithinDownloads(TRUE)
         /\ handleFirmwareDownload(c, deviceConnections[c].currentSession,
                                   offset, 0, FALSE, TRUE)
    \/ \E c \in OneClient :
         /\ WithinRequests(c)
         /\ HasSession(activeSessions, deviceConnections[c].currentSession)
         /\ handleFirmwareVerify(
                c, deviceConnections[c].currentSession,
                GetSession(activeSessions,
                           deviceConnections[c].currentSession).firmwareInfo.md5,
                "", TRUE)
    \/ \E u \in Reuploads :
         mtimeClock < MaxUploads /\ UploadFirmware(u[1], u[2], u[3])

SpecSnapshot == InitStocked /\ [][NextSnapshot]_vars

\* the file the session of connection c is served from
ServedFile(c) ==
    firmwareDir[GetSession(activeSessions,
                           deviceConnections[c].currentSession).firmwareInfo.path]

\* a download request of connection c for its session
OwnDownload(c, offset, size, writeOk) ==
    /\ HasSession(activeSessions, deviceConnections[c].currentSession)
    /\ handleFirmwareDownload(c, deviceConnections[c].currentSession,
                              offset, size, FALSE, writeOk)

\* the one size the device of SpecRepeat asks for
RepeatSizes == {512}

\* Repeated downloads: a device checks and asks again and again for the
\* same offsets of its session with the same size, while socket writes
\* fail, it resumes, and its connection drops and comes back.
NextRepeat ==
    \/ \E c \in OneClient :
         totalConnections < MaxConnections /\ Connect(c)
    \/ \E c \in OneClient : cleanupConnection(c)
    \/ \E c \in OneClient, d \in OneDevice :
         /\ c \in DOMAIN deviceConnections
         /\ deviceConnections[c].chunksRequested < MaxSizingRequests
         /\ WithinSessions(d)
         /\ handleFirmwareCheck(c, d, TRUE)
    \/ \E c \in OneClient, sid \in SessionIds :
         /\ c \in DOMAIN deviceConnections
         /\ deviceConnections[c].chunksRequested < MaxSizingRequests
         /\ handleDownloadResume(c, sid, TRUE)
    \/ \E c \in OneClient, offset \in SizingOffsets, size \in RepeatSizes,
          writeOk \in BOOLEAN :
         /\ c \in DOMAIN deviceConnections
         /\ deviceConnections[c].chunksRequested < MaxSizingRequests
         /\ writeOk \/ retryCount < MaxRetryCount
         /\ OwnDownload(c, offset, size, writeOk)

SpecRepeat == InitStocked /\ [][NextRepeat]_vars

\* Failing requests: a connection's devices check, send lines that are not JSON and
\* requests with an unknown action, name sessions that exist and sessions
\* that do not in download, verify and resume, verify with and without
\* a hash; an administrator deletes the firmware file.
NextErrors ==
    \/ \E c \in OneClient :
         totalConnections < MaxConnections /\ Connect(c)
    \/ \E c \in OneClient, d \in Devices, writeOk \in BOOLEAN :
         WithinRequests(c) /\ WithinSessions(d) /\ handleFirmwareCheck(c, d, writeOk)
    \/ \E c \in OneClient, parses \in BOOLEAN :
         WithinRequests(c) /\ handleBadRequest(c, parses, TRUE)
    \/ \E c \in OneClient, sid \in SessionIds, offset \in Offsets :
         /\ WithinRequests(c)
         /\ WithinDownloads(TRUE)
         /\ handleFirmwareDownload(c, sid, offset, 0, FALSE, TRUE)
    \/ \E c \in OneClient, sid \in SessionIds :
         \E h \in VerifyHashes(sid), hashType \in HashTypes :
            WithinRequests(c) /\ handleFirmwareVerify(c, sid, h, hashType, TRUE)
    \/ \E c \in OneClient, sid \in SessionIds :
         WithinRequests(c) /\ handleDownloadResume(c, sid, TRUE)
    \/ \E v \in DOMAIN firmwareDir : DeleteFirmware(v)

SpecErrors == InitStocked /\ [][NextErrors]_vars

\* a server started with one firmware file that holds the first bytes of
\* "123456789"
InitCrc ==
    /\ now = 0
    /\ \E n \in CrcFileSizes :
          firmwareDir = [ v \in {"1.0.0"} |-> [size |-> n, data |-> 2, mtime |-> 0] ]
    /\ mtimeClock = 0
    /\ activeSessions = <<>>
    /\ sessionCounter = 0
    /\ deviceConnections = <<>>
    /\ totalConnections = 0
    /\ retryCount = 0
    /\ chunksServed = 0
    /\ lastResponse = NoResponse
    /\ device = NoDevice
    /\ serialAT = <<>>
    /\ reader = NoReader
    /\ delivered = <<>>
    /\ checkHandlers = <<>>
    /\ dataEvent = NoDataEvent

\* Checksums: a device checks and asks for the bytes of the file from
\* some offset on; the header of the answer carries their CRC.
NextCrc ==
    \/ \E c \in OneClient :
         totalConnections < MaxConnections /\ Connect(c)
    \/ \E c \in OneClient : cleanupConnection(c)
    \/ \E c \in OneClient, d \in OneDevice :
         WithinRequests(c) /\ WithinSessions(d) /\ handleFirmwareCheck(c, d, TRUE)
    \/ \E c \in OneClient, offset \in 0..8 :
         /\ WithinRequests(c)
         /\ WithinDownloads(TRUE)
         /\ OwnDownload(c, offset, 0, TRUE)

SpecCrc == InitCrc /\ [][NextCrc]_vars

\* a server started with one firmware file, of any of the bodies
InitAnyBody ==
    /\ now = 0
    /\ \E d \in DataIds, n \in FileSizes :
          firmwareDir = [ v \in {"1.0.0"} |-> [size |-> n, data |-> d, mtime |-> 0] ]
    /\ mtimeClock = 0
    /\ activeSessions = <<>>
    /\ sessionCounter = 0
    /\ deviceConnections = <<>>
    /\ totalConnections = 0
    /\ retryCount = 0
    /\ chunksServed = 0
    /\ lastResponse = NoResponse
    /\ device = NoDevice
    /\ serialAT = <<>>
    /\ reader = NoReader
    /\ delivered = <<>>
    /\ checkHandlers = <<>>
    /\ dataEvent = NoDataEvent

\* Compression: a device checks and asks for chunks, with and without
\* compression, of a body that compresses well or of one that does not;
\* an administrator uploads the version again with any of the bodies.
NextCompression ==
    \/ \E c \in OneClient :
         totalConnections < MaxConnections /\ Connect(c)
    \/ \E c \in OneClient, d \in OneDevice :
         WithinRequests(c) /\ WithinSessions(d) /\ handleFirmwareCheck(c, d, TRUE)
    \/ \E c \in OneClient, offset \in Offsets, size \in RequestSizes,
          useCompression \in BOOLEAN :
         /\ WithinRequests(c)
         /\ WithinDownloads(TRUE)
         /\ HasSession(activeSessions, deviceConnections[c].currentSession)
         /\ handleFirmwareDownload(c, deviceConnections[c].currentSession,
                                   offset, size, useCompression, TRUE)
    \/ \E d \in DataIds, n \in FileSizes :
         mtimeClock < MaxUploads /\ UploadFirmware("1.0.0", n, d)

SpecCompression == InitAnyBody /\ [][NextCompression]_vars

\* a server started with one small firmware file in its directory
InitSmall ==
    /\ now = 0
    /\ firmwareDir = [ v \in {"1.0.0"} |-> [size |-> 130, data |-> 0, mtime |-> 0] ]
    /\ mtimeClock = 0
    /\ activeSessions = <<>>
    /\ sessionCounter = 0
    /\ deviceConnections = <<>>
    /\ totalConnections = 0
    /\ retryCount = 0
    /\ chunksServed = 0
    /\ lastResponse = NoResponse
    /\ device = NoDevice
    /\ serialAT = <<>>
    /\ reader = NoReader
    /\ delivered = <<>>
    /\ checkHandlers = <<>>
    /\ dataEvent = NoDataEvent

\* Bounds of a read: a device checks, asks for chunks at offsets inside and
\* at the end of the file, and resumes; its connection drops; an
\* administrator uploads version 1.0.0 again with a longer body.
NextBounds ==
    \/ \E c \in OneClient :
         totalConnections < MaxConnections /\ Connect(c)
    \/ \E c \in OneClient : cleanupConnection(c)
    \/ \E c \in OneClient, d \in OneDevice :
         WithinRequests(c) /\ WithinSessions(d) /\ handleFirmwareCheck(c, d, TRUE)
    \/ \E c \in OneClient, sid \in SessionIds, offset \in Offsets :
         /\ WithinRequests(c)
         /\ WithinDownloads(TRUE)
         /\ handleFirmwareDownload(c, sid, offset, 0, FALSE, TRUE)
    \/ \E c \in OneClient, sid \in SessionIds :
         WithinRequests(c) /\ handleDownloadResume(c, sid, TRUE)
    \/ /\ mtimeClock < MaxUploads
       /\ UploadFirmware("1.0.0", 600, 1)

SpecBounds == InitSmall /\ [][NextBounds]_vars

\* Downloads: one device checks and asks for chunks at any offset, in any
\* order, of any size, while socket writes may fail; it
\* resumes, verifies with the right hash, and its connection drops.
NextDownload ==
    \/ \E c \in OneClient :
         totalConnections < MaxConnections /\ Connect(c)
    \/ \E c \in OneClient : cleanupConnection(c)
    \/ \E c \in OneClient, d \in OneDevice :
         WithinRequests(c) /\ WithinSessions(d) /\ handleFirmwareCheck(c, d, TRUE)
    \/ \E c \in OneClient, sid \in SessionIds :
         \E offset \in Offsets, size \in RequestSizes, writeOk \in BOOLEAN :
            /\ WithinRequests(c) /\ WithinDownloads(writeOk)
            /\ handleFirmwareDownload(c, sid, offset, size, FALSE, writeOk)
    \/ \E c \in OneClient :
         /\ WithinRequests(c)
         /\ handleDownloadResume(c, deviceConnections[c].currentSession, TRUE)
    \/ \E c \in OneClient :
         /\ WithinRequests(c)
         /\ \E h \in VerifyHashes(deviceConnections[c].currentSession)
                       \ {NoHash, WrongHash} :
               handleFirmwareVerify(c, deviceConnections[c].currentSession,
                                    h, "", TRUE)

SpecDownload == InitStocked /\ [][NextDownload]_vars

\* Sweeps: a device checks, asks for the first chunk, resumes and verifies;
\* its connection drops; minutes pass and the sweep timer fires.
NextSweep ==
    \/ \E c \in OneClient :
         totalConnections < MaxConnections /\ Connect(c)
    \/ \E c \in OneClient : cleanupConnection(c)
    \/ \E c \in OneClient, d \in OneDevice :
         WithinRequests(c) /\ WithinSessions(d) /\ handleFirmwareCheck(c, d, TRUE)
    \/ \E c \in OneClient :
         /\ WithinRequests(c) /\ WithinDownloads(TRUE)
         /\ handleFirmwareDownload(c, deviceConnections[c].currentSession,
                                   0, 0, FALSE, TRUE)
    \/ \E c \in OneClient, sid \in RequestableIds :
         WithinRequests(c) /\ handleDownloadResume(c, sid, TRUE)
    \/ \E c \in OneClient :
         /\ WithinRequests(c)
         /\ \E h \in VerifyHashes(deviceConnections[c].currentSession)
                       \ {NoHash, WrongHash} :
               handleFirmwareVerify(c, deviceConnections[c].currentSession,
                                    h, "", TRUE)
    \/ SessionCleanup
    \/ \E m \in SweepSteps : now + m <= MaxSweepTime /\ AdvanceTime(m)

SpecSweep == InitStocked /\ [][NextSweep]_vars

----------------------------------------------------------------------------
(* The end-to-end scenario.  A device on connection "c1" checks, asks for  *)
(* the offsets 0, k, 2k, ... in order, each time with size k, and sends    *)
(* the MD5 the check declared once its offset has reached the size the     *)
(* check declared.  Each request waits for the answer to the one before.   *)
(* A second device on "c2" may lose a chunk to a failed socket write.      *)

E2EClient == "c1"
E2EDevice == "devA"
OtherClient == "c2"
OtherDevice == "devB"

E2EIdle(k) ==
    [ state |-> "idle", k |-> k, sessionId |-> NoSession, total |-> 0,
      md5 |-> NoHash, offset |-> 0, received |-> <<>>, verified |-> FALSE ]

InitE2E ==
    /\ now = 0
    /\ firmwareDir = [ v \in {"1.0.0"} |-> E2EArtifact ]
    /\ mtimeClock = 0
    /\ activeSessions = <<>>
    /\ sessionCounter = 0
    /\ deviceConnections = <<>>
    /\ totalConnections = 0
    /\ retryCount = 0
    /\ chunksServed = 0
    /\ lastResponse = NoResponse
    /\ \E k \in E2ERequestSizes : device = E2EIdle(k)
    /\ serialAT = <<>>
    /\ reader = NoReader
    /\ delivered = <<>>
    /\ checkHandlers = <<>>
    /\ dataEvent = NoDataEvent

\* the device reads the answer to its check
E2EReceiveCheck ==
    /\ device.state = "checking"
    /\ lastResponse.kind = "check"
    /\ device' = [ device EXCEPT !.state = "downloading",
                                 !.sessionId = lastResponse.sessionId,
                                 !.total = lastResponse.size,
                                 !.md5 = lastResponse.md5,
                                 !.offset = lastResponse.resumeOffset ]
    /\ lastResponse' = NoResponse
    /\ UNCHANGED <<readerVars, checkHandlers, dataEvent>>
    /\ UNCHANGED <<now, firmwareDir, mtimeClock, activeSessions, sessionCounter,
                   deviceConnections, totalConnections, retryCount,
                   chunksServed>>

\* the device reads a chunk and moves on by k
E2EReceiveChunk ==
    /\ device.state = "downloading"
    /\ lastResponse.kind = "chunk"
    /\ device' = [ device EXCEPT
                     !.received = Append(@, lastResponse.payload),
                     !.offset = @ + device.k ]
    /\ lastResponse' = NoResponse
    /\ UNCHANGED <<readerVars, checkHandlers, dataEvent>>
    /\ UNCHANGED <<now, firmwareDir, mtimeClock, activeSessions, sessionCounter,
                   deviceConnections, totalConnections, retryCount,
                   chunksServed>>

\* the device reads the answer to its verify
E2EReceiveVerify ==
    /\ device.state = "verifying"
    /\ lastResponse.kind = "verify"
    /\ device' = [ device EXCEPT !.state = "done",
                                 !.verified = lastResponse.verified ]
    /\ lastResponse' = NoResponse
    /\ UNCHANGED <<readerVars, checkHandlers, dataEvent>>
    /\ UNCHANGED <<now, firmwareDir, mtimeClock, activeSessions, sessionCounter,
                   deviceConnections, totalConnections, retryCount,
                   chunksServed>>

\* the device has sent a request and waits for its answer
E2ESent(state) ==
    /\ device' = [device EXCEPT !.state = state]
    /\ UNCHANGED <<readerVars, checkHandlers, dataEvent>>
    /\ UNCHANGED <<now, firmwareDir, mtimeClock, activeSessions, sessionCounter,
                   deviceConnections, totalConnections, retryCount,
                   chunksServed, lastResponse>>

NextE2E ==
    \/ \E c \in {E2EClient, OtherClient} :
         totalConnections < MaxConnections /\ Connect(c)
    \/ /\ device.state = "idle"
       /\ E2EClient \in DOMAIN deviceConnections
       /\ lastResponse = NoResponse
       /\ E2ESent("checking")
    \/ /\ device.state = "checking"
       /\ lastResponse = NoResponse
       /\ handleFirmwareCheck(E2EClient, E2EDevice, TRUE)
    \/ E2EReceiveCheck
    \/ /\ device.state = "downloading"
       /\ lastResponse = NoResponse
       /\ device.offset < device.total
       /\ handleFirmwareDownload(E2EClient, device.sessionId, device.offset,
                                 device.k, FALSE, TRUE)
    \/ E2EReceiveChunk
    \/ /\ device.state = "downloading"
       /\ lastResponse = NoResponse
       /\ device.offset >= device.total
       /\ E2ESent("verifying")
    \/ /\ device.state = "verifying"
       /\ lastResponse = NoResponse
       /\ handleFirmwareVerify(E2EClient, device.sessionId, device.md5, "", TRUE)
    \/ E2EReceiveVerify
    \/ /\ lastResponse = NoResponse
       /\ WithinRequests(OtherClient) /\ WithinSessions(OtherDevice)
       /\ handleFirmwareCheck(OtherClient, OtherDevice, FALSE)
    \/ /\ lastResponse = NoResponse
       /\ WithinRequests(OtherClient) /\ WithinDownloads(FALSE)
       /\ handleFirmwareDownload(OtherClient,
                                 deviceConnections[OtherClient].currentSession,
                                 0, 0, FALSE, FALSE)

SpecE2E == InitE2E /\ [][NextE2E]_vars

----------------------------------------------------------------------------
(* The device's reader.  serialAT carries the bytes the server wrote, in   *)
(* order; how many of them are there when the reader polls, and when a     *)
(* timeout of the reader elapses, is open.  A reader sends a request,      *)
(* reads the header line, then the binary data the header announces.       *)

FramingClient == "c1"
FramingDevice == "devA"
\* a body of 130 bytes: a chunk of 128 bytes and one of 2, or one of 130
FramingFiles == { [size |-> 130, data |-> data, mtime |-> 0] : data \in DataIds }
FramingOffsets == {0, 128}
\* the bytes serialAT.available() lets one pass of the read loop take
Bursts == {1, 50, BUFFER_SIZE}

\* after Update.begin: buffer_pos = 0, nothing written
ReaderIdle ==
    [ pc |-> "idle", awaiting |-> FALSE, line |-> <<>>, chunk_size |-> 0,
      remaining |-> 0, bytes_read |-> 0, buffer |-> <<>>, flash |-> <<>> ]

InitFraming ==
    /\ now = 0
    /\ \E file \in FramingFiles : firmwareDir = [ v \in {"1.0.0"} |-> file ]
    /\ mtimeClock = 0
    /\ activeSessions = <<>>
    /\ sessionCounter = 0
    /\ deviceConnections = <<>>
    /\ totalConnections = 0
    /\ retryCount = 0
    /\ chunksServed = 0
    /\ lastResponse = NoResponse
    /\ device = NoDevice
    /\ serialAT = <<>>
    /\ reader = ReaderIdle
    /\ delivered = <<>>
    /\ checkHandlers = <<>>
    /\ dataEvent = NoDataEvent

serverVars ==
    <<now, firmwareDir, mtimeClock, activeSessions, sessionCounter,
      deviceConnections, totalConnections, retryCount, chunksServed,
      checkHandlers, dataEvent>>

\* checkForUpdates reads the answer to its check
ReadCheckResponse ==
    /\ lastResponse.kind = "check"
    /\ lastResponse' = NoResponse
    /\ UNCHANGED <<serverVars, deviceVars>>

\* sendRequest, then readResponseHeader calls readTCPLine
sendRequest ==
    /\ reader.pc = "idle"
    /\ reader' = [reader EXCEPT !.pc = "line", !.awaiting = TRUE, !.line = <<>>]
    /\ UNCHANGED <<serverVars, lastResponse, device, serialAT, delivered>>

\* the chunk response the server wrote reaches the modem
Deliver ==
    /\ lastResponse.kind = "chunk"
    /\ serialAT' = serialAT \o Wire(lastResponse)
    /\ delivered' = Append(delivered, lastResponse)
    /\ reader' = [reader EXCEPT !.awaiting = FALSE]
    /\ lastResponse' = NoResponse
    /\ UNCHANGED <<serverVars, device>>

RECURSIVE ParseNumber(_, _, _)
\* the number whose digits start at line[i]
ParseNumber(line, i, acc) ==
    IF i <= Len(line) /\ line[i] >= 48 /\ line[i] <= 57
    THEN ParseNumber(line, i + 1, 10 * acc + (line[i] - 48))
    ELSE acc

\* deserializeJson succeeds on a whole object: the headers have no nested
\* object and no string value, so a line is one iff it runs from { to }
deserializeJson(line) ==
    /\ Len(line) >= 2
    /\ line[1] = 123
    /\ line[Len(line)] = 125
    /\ \A i \in 2..(Len(line) - 1) : line[i] \notin {123, 125}

\* the length field of the header: the digits after {"s":
HeaderSize(line) == ParseNumber(line, 6, 0)

\* Update.abort(); disconnectTCP(); return false
ReaderFailed(r) == [r EXCEPT !.pc = "failed", !.line = <<>>]

\* readResponseHeader once readTCPLine has returned, and the call of
\* receiveBinaryData with the length the header announces
HeaderRead(r) ==
    IF Len(r.line) = 0 \/ ~deserializeJson(r.line) THEN ReaderFailed(r)
    ELSE LET chunk_size == HeaderSize(r.line)
         IN [ r EXCEPT !.pc = IF chunk_size = 0 THEN "idle" ELSE "binary",
                       !.line = <<>>,
                       !.chunk_size = chunk_size,
                       !.remaining = chunk_size,
                       !.bytes_read = 0 ]

\* readTCPLine: one byte is there and is read
readTCPLine ==
    /\ reader.pc = "line"
    /\ serialAT # <<>>
    /\ LET c == Head(serialAT)
       IN reader' = IF c = 10 THEN HeaderRead(reader)
                    ELSE IF c # 13
                    THEN [reader EXCEPT !.line = Append(@, c)]
                    ELSE reader
    /\ serialAT' = Tail(serialAT)
    /\ UNCHANGED <<serverVars, lastResponse, device, delivered>>

\* readTCPLine: millis() - start reaches timeout; the line read so far is
\* returned
readTCPLineTimeout ==
    /\ reader.pc = "line"
    /\ reader' = HeaderRead(reader)
    /\ UNCHANGED <<serverVars, lastResponse, device, serialAT, delivered>>

\* a read loop that takes all that is there into the buffer and writes it
\* out once the chunk is complete
receiveBinaryDataUnbounded(burst, flashOk) ==
    /\ reader.pc = "binary"
    /\ serialAT # <<>>
    /\ LET n == Min(Min(reader.remaining, burst), Len(serialAT))
           buffer == reader.buffer \o SubSeq(serialAT, 1, n)
           remaining == reader.remaining - n
           write == remaining = 0
       IN /\ serialAT' = SubSeq(serialAT, n + 1, Len(serialAT))
          /\ reader' =
               IF write /\ ~flashOk
               THEN ReaderFailed([ reader EXCEPT
                                     !.buffer = buffer,
                                     !.bytes_read = @ + n,
                                     !.remaining = remaining ])
               ELSE [ reader EXCEPT
                        !.pc = IF remaining = 0 THEN "idle" ELSE "binary",
                        !.buffer = IF write THEN <<>> ELSE buffer,
                        !.flash = IF write THEN @ \o buffer ELSE @,
                        !.bytes_read = @ + n,
                        !.remaining = remaining ]
    /\ UNCHANGED <<serverVars, lastResponse, device, delivered>>

\* receiveBinaryData: one pass of the outer loop with bytes available
receiveBinaryData(burst, flashOk) ==
    /\ reader.pc = "binary"
    /\ serialAT # <<>>
    /\ LET to_read == Min(BUFFER_SIZE - Len(reader.buffer), reader.remaining)
           n == Min(Min(to_read, burst), Len(serialAT))
           buffer == reader.buffer \o SubSeq(serialAT, 1, n)
           remaining == reader.remaining - n
           write == Len(buffer) = BUFFER_SIZE \/ remaining = 0
       IN /\ serialAT' = SubSeq(serialAT, n + 1, Len(serialAT))
          /\ reader' =
               IF write /\ ~flashOk
               THEN ReaderFailed([ reader EXCEPT
                                     !.buffer = buffer,
                                     !.bytes_read = @ + n,
                                     !.remaining = remaining ])
               ELSE [ reader EXCEPT
                        !.pc = IF remaining = 0 THEN "idle" ELSE "binary",
                        !.buffer = IF write THEN <<>> ELSE buffer,
                        !.flash = IF write THEN @ \o buffer ELSE @,
                        !.bytes_read = @ + n,
                        !.remaining = remaining ]
    /\ UNCHANGED <<serverVars, lastResponse, device, delivered>>

\* receiveBinaryData: 30 seconds pass without a byte
receiveBinaryDataTimeout ==
    /\ reader.pc = "binary"
    /\ reader' = ReaderFailed(reader)
    /\ UNCHANGED <<serverVars, lastResponse, device, serialAT, delivered>>

NextFraming ==
    \/ /\ totalConnections < MaxConnections
       /\ Connect(FramingClient)
    \/ /\ activeSessions = <<>>
       /\ lastResponse = NoResponse
       /\ handleFirmwareCheck(FramingClient, FramingDevice, TRUE)
    \/ ReadCheckResponse
    \/ /\ Len(delivered) < MaxMessages
       /\ FramingClient \in DOMAIN deviceConnections
       /\ lastResponse = NoResponse
       /\ deviceConnections[FramingClient].currentSession # NoSession
       /\ sendRequest
    \/ \E offset \in FramingOffsets, size \in RequestSizes,
          useCompression \in BOOLEAN :
         /\ reader.pc = "line" /\ reader.awaiting
         /\ lastResponse = NoResponse
         /\ handleFirmwareDownload(FramingClient,
                                   deviceConnections[FramingClient].currentSession,
                                   offset, size, useCompression, TRUE)
    \/ Deliver
    \/ readTCPLine
    \/ readTCPLineTimeout
    \/ \E burst \in Bursts, flashOk \in BOOLEAN : receiveBinaryData(burst, flashOk)
    \/ receiveBinaryDataTimeout

SpecFraming == InitFraming /\ [][NextFraming]_vars

----------------------------------------------------------------------------
(* Connection drops *)

\* activeSessions.values() as a set
Sessions(sessions) == { sessions[i] : i \in 1..Len(sessions) }

\* what the drop of connection c does to the registry: the session the
\* connection is bound to gets interrupted = TRUE and interruptedAt = now and
\* keeps every other field; every other session is left as it was
DropEffect(c) ==
    LET owned == deviceConnections[c].currentSession IN
    /\ Len(activeSessions') = Len(activeSessions)
    /\ \A i \in 1..Len(activeSessions) :
         LET before == activeSessions[i]
             after == activeSessions'[i]
         IN IF before.sessionId = owned
            THEN /\ after.interrupted
                 /\ after.interruptedAt = now
                 /\ after.lastOffset = before.lastOffset
                 /\ after.downloadedChunks = before.downloadedChunks
                 /\ after.totalChunks = before.totalChunks
                 /\ after.firmwareInfo = before.firmwareInfo
                 /\ after.completed = before.completed
                 /\ after.sessionId = before.sessionId
                 /\ after.deviceId = before.deviceId
                 /\ after.startTime = before.startTime
                 /\ after.chunks = before.chunks
            ELSE after = before

----------------------------------------------------------------------------
(* resume *)

ResumeEffect(c, sid) ==
    IF HasSession(activeSessions, sid)
    THEN LET before == GetSession(activeSessions, sid) IN
         /\ lastResponse'.kind = "resume"
         /\ lastResponse'.lastOffset = before.lastOffset
         /\ lastResponse'.downloadedChunks = before.downloadedChunks
         /\ lastResponse'.totalChunks = before.totalChunks
         /\ HasSession(activeSessions', sid)
         /\ GetSession(activeSessions', sid) =
              [before EXCEPT !.interrupted = FALSE, !.clientId = c]
         /\ \A s \in Sessions(activeSessions) :
              s.sessionId # sid => s \in Sessions(activeSessions')
         /\ Len(activeSessions') = Len(activeSessions)
         \* the session a drop of c would mark is this one
         /\ deviceConnections'[c].currentSession = sid
    ELSE /\ lastResponse' = ErrorResponse("INVALID_SESSION")
         /\ activeSessions' = activeSessions
         /\ deviceConnections'[c].currentSession =
              deviceConnections[c].currentSession

\* C7: resume on an existing session answers with the session's lastOffset,
\* downloadedChunks and totalChunks and changes none of them, clears
\* interrupted, and binds the session to the requesting connection, so that
\* a drop of that connection marks this session interrupted; resume on an
\* unknown session id answers INVALID_SESSION and leaves the registry and
\* the connection's binding as they were.
ResumeReturnsProgressAndRebinds ==
    [][/\ \A c \in DOMAIN deviceConnections, sid \in RequestableIds :
            /\ lastResponse'.kind \in {"resume", "error"}
            /\ handleDownloadResume(c, sid, TRUE)
            => ResumeEffect(c, sid)
       /\ \A c \in Clients :
            /\ lastResponse.kind = "resume"
            /\ cleanupConnection(c)
            /\ deviceConnections[c].currentSession = lastResponse.sessionId
            => GetSession(activeSessions', lastResponse.sessionId).interrupted
      ]_vars

\* a session with progress that was interrupted has just been resumed on a
\* connection other than the one that created it
ResumeReached ==
    /\ lastResponse.kind = "resume"
    /\ lastResponse.lastOffset > 0
    /\ \E s \in Sessions(activeSessions) :
         /\ s.sessionId = lastResponse.sessionId
         /\ s.interruptedAt # Undefined
         /\ ~s.interrupted
         /\ s.clientId \in DOMAIN deviceConnections
         /\ deviceConnections[s.clientId].currentSession = s.sessionId

----------------------------------------------------------------------------
(* verify *)

\* two hex strings that differ at most in the case of their letters
SameIgnoringCase(a, b) ==
    a.kind = b.kind /\ a.data = b.data /\ a.size = b.size

VerifyEffect(sid, h, hashType) ==
    LET before == GetSession(activeSessions, sid)
        digest == IF hashType = "sha256" THEN before.firmwareInfo.sha256
                  ELSE before.firmwareInfo.md5
        after == GetSession(activeSessions', sid)
    IN /\ HasSession(activeSessions', sid)
       /\ lastResponse'.kind = "verify"
       /\ lastResponse'.verified = SameIgnoringCase(h, digest)
       /\ IF SameIgnoringCase(h, digest)
          THEN after = [before EXCEPT !.completed = TRUE]
          ELSE after = before

\* C8: verify compares the hash it is given, whatever the case of its
\* letters, with the digest the session's snapshot holds for the requested
\* kind (the SHA-256 when hashType is "sha256", the MD5 otherwise); on a
\* match the session becomes completed, on a mismatch the session is left
\* exactly as it was (not completed if it was not, lastOffset and
\* downloadedChunks unchanged), so that a later verify with the right hash
\* completes it.
VerifyCompletesOnMatchOnly ==
    [][\A c \in Clients, sid \in SessionIds :
         \A h \in VerifyHashes(sid) \ {NoHash}, hashType \in HashTypes :
            /\ HasSession(activeSessions, sid)
            /\ handleFirmwareVerify(c, sid, h, hashType, TRUE)
            => VerifyEffect(sid, h, hashType)
      ]_vars

\* a session with progress has just been completed by its MD5 sent in
\* upper case
VerifyReached ==
    /\ lastResponse.kind = "verify"
    /\ lastResponse.verified
    /\ lastResponse.receivedHash.upper
    /\ \E s \in Sessions(activeSessions) : s.completed /\ s.lastOffset > 0

----------------------------------------------------------------------------
(* check *)

\* the sessions of a device that are not completed and hold a version
OpenSessions(sessions, deviceId, version) ==
    { s \in Sessions(sessions) :
        /\ s.deviceId = deviceId
        /\ ~s.completed
        /\ s.firmwareInfo.version = version }

AtMostOneOpenSession(sessions) ==
    \A d \in Devices, v \in Versions :
        Cardinality(OpenSessions(sessions, d, v)) <= 1

\* after a check of device d that found the device's open session to hold
\* another version than the latest: the old session is gone or completed,
\* and the session a later check matches holds the latest version
Superseded(d) ==
    LET i == ExistingSessionIndex(activeSessions, d)
        latest == getLatestFirmwareInfo(firmwareDir).version
        j == ExistingSessionIndex(activeSessions', d)
    IN i # 0 /\ activeSessions[i].firmwareInfo.version # latest
       => /\ \A s \in Sessions(activeSessions') :
                s.sessionId = activeSessions[i].sessionId => s.completed
          /\ j # 0
          /\ activeSessions'[j].firmwareInfo.version = latest

\* C1: in every reachable state there is at most one session that is not
\* completed per (deviceId, firmware version), and a check that finds the
\* device's open session to hold another version than the latest replaces
\* it: the old session is no longer the one later checks match.
OneOpenSessionPerDeviceVersion ==
    [][/\ AtMostOneOpenSession(activeSessions')
       /\ \A c \in Clients, d \in Devices :
            DOMAIN firmwareDir # {} /\ handleFirmwareCheck(c, d, TRUE)
            => Superseded(d)
      ]_vars

CheckEffect(d) ==
    LET info == getLatestFirmwareInfo(firmwareDir)
        open == OpenSessions(activeSessions, d, info.version)
    IN IF open # {}
       THEN \E s \in open :
               /\ lastResponse'.kind = "check"
               /\ lastResponse'.sessionId = s.sessionId
               /\ lastResponse'.resumeOffset = s.lastOffset
               /\ Len(activeSessions') = Len(activeSessions)
               /\ [s EXCEPT !.interrupted = FALSE] \in Sessions(activeSessions')
       ELSE /\ Len(activeSessions') = Len(activeSessions) + 1
            /\ LET new == activeSessions'[Len(activeSessions')] IN
               /\ new.lastOffset = 0
               /\ new.downloadedChunks = 0
               /\ new.totalChunks * DEFAULT_CHUNK_SIZE >= info.size
               /\ (new.totalChunks - 1) * DEFAULT_CHUNK_SIZE < info.size
               /\ lastResponse'.kind = "check"
               /\ lastResponse'.sessionId = new.sessionId
               /\ lastResponse'.resumeOffset = 0

\* C6: a check from a device that has a session that is not completed for
\* the latest version answers with that session's id and resumeOffset =
\* its lastOffset, and clears interrupted without changing lastOffset or
\* downloadedChunks; any other check adds a new session with lastOffset 0,
\* downloadedChunks 0, totalChunks = ceil(size / DEFAULT_CHUNK_SIZE) and
\* answers resumeOffset 0.
CheckResumesOrAllocates ==
    [][\A c \in Clients, d \in Devices :
         DOMAIN firmwareDir # {} /\ handleFirmwareCheck(c, d, TRUE)
         => CheckEffect(d)
      ]_vars

----------------------------------------------------------------------------
(* download *)

\* C2: no step (check, download at any offset, resume, verify, drop)
\* lowers the lastOffset of a session, and a download that serves the
\* chunk (offset, actualSize) sets lastOffset to
\* max(previous lastOffset, offset + actualSize) and adds exactly 1 to
\* downloadedChunks.
LastOffsetNeverDecreases ==
    [][/\ \A s \in Sessions(activeSessions), t \in Sessions(activeSessions') :
            s.sessionId = t.sessionId => t.lastOffset >= s.lastOffset
       /\ \A c \in Clients, sid \in SessionIds :
            \A offset \in Offsets, size \in RequestSizes :
               /\ lastResponse'.kind = "chunk"
               /\ HasSession(activeSessions, sid)
               /\ handleFirmwareDownload(c, sid, offset, size, FALSE, TRUE)
               => LET before == GetSession(activeSessions, sid)
                      after == GetSession(activeSessions', sid)
                      end == offset + lastResponse'.actualSize
                  IN /\ after.lastOffset =
                          IF before.lastOffset > end THEN before.lastOffset
                          ELSE end
                     /\ after.downloadedChunks = before.downloadedChunks + 1
      ]_vars

\* a chunk that ends below the session's lastOffset has just been served as
\* the session's second chunk
LowerChunkServedReached ==
    /\ lastResponse.kind = "chunk"
    /\ \E s \in Sessions(activeSessions) :
         /\ s.downloadedChunks = 2
         /\ lastResponse.header.o \in DOMAIN s.chunks
         /\ lastResponse.header.o + lastResponse.actualSize < s.lastOffset

----------------------------------------------------------------------------
(* The sweep *)

\* the sessions a sweep at time t is to remove
Evicted(s, t) ==
    \/ s.completed
    \/ s.interrupted /\ t - s.interruptedAt > 10
    \/ t - s.startTime > 45

\* C4: a sweep at time now removes a session if and only if it is
\* completed, or interrupted with now - interruptedAt > 10 minutes, or
\* now - startTime > 45 minutes; every other session is retained with all
\* its fields unchanged, and the sweep adds nothing.
SweepRemovesExactlyTheExpired ==
    [][SessionCleanup
       => /\ \A s \in Sessions(activeSessions) :
               s \in Sessions(activeSessions') <=> ~Evicted(s, now)
          /\ Sessions(activeSessions') \subseteq Sessions(activeSessions)
          /\ Len(activeSessions') = Cardinality(Sessions(activeSessions'))
      ]_vars

\* a sweep has removed a session and left one that is not interrupted and
\* exactly 45 minutes old
SweepReached ==
    /\ lastResponse = NoResponse
    /\ Len(activeSessions) < sessionCounter
    /\ activeSessions = Retained(activeSessions, now)
    /\ \E s \in Sessions(activeSessions) :
         ~s.interrupted /\ now - s.startTime = 45

\* what the claim C3 says of a step of the gap (the sweep timer fires or
\* time passes): the interrupted session stays as it is while less than
\* 10 minutes have passed since interruptedAt
GraceStep(s) ==
    /\ s.interrupted
    /\ ~s.completed
    /\ now' - s.interruptedAt < INTERRUPTED_TIMEOUT
    /\ \/ SessionCleanup
       \/ \E m \in SweepSteps : AdvanceTime(m)

\* a resume that finds the interrupted session answers with its progress
\* and leaves the progress as it is
ResumeAfterGap ==
    \A c \in DOMAIN deviceConnections, s \in Sessions(activeSessions) :
        /\ s.interrupted
        /\ lastResponse'.kind = "resume"
        /\ handleDownloadResume(c, s.sessionId, TRUE)
        => /\ lastResponse'.lastOffset = s.lastOffset
           /\ lastResponse'.downloadedChunks = s.downloadedChunks
           /\ GetSession(activeSessions', s.sessionId).lastOffset = s.lastOffset
           /\ GetSession(activeSessions', s.sessionId).downloadedChunks =
                s.downloadedChunks

----------------------------------------------------------------------------
(* The end-to-end scenario *)

\* the bytes the device has received, in the order it received them
RECURSIVE Concatenation(_)
Concatenation(payloads) ==
    IF payloads = <<>> THEN <<>>
    ELSE PayloadBytes(Head(payloads)) \o Concatenation(Tail(payloads))

\* the device's chunks are of k bytes and a final chunk of
\* N - k * floor((N - 1) / k) bytes, N the size the check declared
ChunksOfK ==
    LET n == Len(device.received)
        last == (device.total - 1) \div device.k
    IN /\ n = last + 1
       /\ \A i \in 1..(n - 1) : device.received[i].size = device.k
       /\ device.received[n].size = device.total - device.k * last

\* what the scenario ends with
EndToEndOutcome ==
    LET session == GetSession(activeSessions, device.sessionId)
        file == firmwareDir[session.firmwareInfo.path]
    IN /\ ChunksOfK
       /\ Concatenation(device.received) = FirmwareBytes(file.data, 0, file.size)
       /\ session.lastOffset = file.size
       /\ device.verified
       /\ session.completed

\* the server served every request of the device with the size it asked
\* for: k is inside [MIN_CHUNK_SIZE, MAX_CHUNK_SIZE], and the error rate
\* was not above the threshold at any of the requests
ServedAsAsked ==
    /\ MIN_CHUNK_SIZE <= device.k /\ device.k <= MAX_CHUNK_SIZE
    /\ \A n \in 1..deviceConnections[E2EClient].chunksRequested :
         ~ErrorRateHigh(n, retryCount)

----------------------------------------------------------------------------
(* Framing *)

\* a chunk response on the wire: one header line without a '\n' in it, the
\* '\n', then header.s bytes and nothing else
FramedOnWire(response) ==
    LET line == WireHeaderString(response.header, response.h)
        wire == Wire(response)
    IN /\ \A i \in 1..Len(line) : line[i] # 10
       /\ SubSeq(wire, 1, Len(line)) = line
       /\ wire[Len(line) + 1] = 10
       /\ Len(wire) = Len(line) + 1 + response.header.s

RECURSIVE Payloads(_)
\* the payload bytes of the responses, in order
Payloads(responses) ==
    IF responses = <<>> THEN <<>>
    ELSE PayloadBytes(Head(responses).payload) \o Payloads(Tail(responses))

\* C10: every chunk response is one JSON header line terminated by '\n'
\* followed by exactly header.s payload bytes and nothing else; and when
\* the reader is back from the binary data of a chunk it has consumed the
\* header line and exactly the announced number of bytes, whatever their
\* values: nothing of the chunk is left unread, and the bytes it took as
\* binary data are the payloads, in order.
HybridFraming ==
    /\ \A i \in 1..Len(delivered) : FramedOnWire(delivered[i])
    /\ reader.pc = "idle" /\ delivered # <<>>
       => /\ serialAT = <<>>
          /\ reader.bytes_read = delivered[Len(delivered)].header.s
          /\ reader.flash = Payloads(delivered)

\* two chunks have been read, with a '\n' and a '\r' among their bytes
FramingReached ==
    /\ reader.pc = "idle"
    /\ Len(delivered) = 2
    /\ serialAT = <<>>
    /\ reader.flash = Payloads(delivered)
    /\ \E i, j \in 1..Len(reader.flash) :
         reader.flash[i] = 10 /\ reader.flash[j] = 13

----------------------------------------------------------------------------
(* Uploads during a session *)

\* the download of [offset, ...) with the default chunk size answers with
\* the bytes of the artifact the session was started against
ServesSnapshot(info, offset) ==
    IF offset >= info.size THEN lastResponse'.kind = "error"
    ELSE LET n == Min(DEFAULT_CHUNK_SIZE, info.size - offset)
         IN /\ lastResponse'.kind = "chunk"
            /\ lastResponse'.actualSize = n
            /\ PayloadBytes(lastResponse'.payload)
                 = FirmwareBytes(info.md5.data, offset, n)

\* C11: a session serves the artifact as it was at check time: whatever
\* uploads happened since the check (a newer version, or the same version
\* again), a download of the session returns the bytes of the artifact
\* the check declared, up to the size it declared, and a verify compares
\* with the digest it declared.
SessionServesSnapshot ==
    [][\A c \in DOMAIN deviceConnections :
         LET sid == deviceConnections[c].currentSession
         IN HasSession(activeSessions, sid) =>
              LET info == GetSession(activeSessions, sid).firmwareInfo
              IN /\ \A offset \in Offsets :
                      handleFirmwareDownload(c, sid, offset, 0, FALSE, TRUE)
                      => ServesSnapshot(info, offset)
                 /\ handleFirmwareVerify(c, sid, info.md5, "", TRUE)
                      => /\ lastResponse'.kind = "verify"
                         /\ lastResponse'.verified
                         /\ lastResponse'.expectedHash
                              = Digest("md5", [data |-> info.md5.data,
                                               size |-> info.size])
      ]_vars

----------------------------------------------------------------------------
(* Chunk sizes *)

\* C12: for every session, every offset in [0, totalSize) and every
\* requestedSize >= 1, below MIN_CHUNK_SIZE and above MAX_CHUNK_SIZE
\* included, a download returns actualSize = min(requestedSize,
\* totalSize - offset) bytes, and they are the bytes of the artifact at
\* [offset, offset + actualSize).
DownloadReturnsRequestedSize ==
    [][\A c \in DOMAIN deviceConnections :
         \A offset \in SizingOffsets, size \in SizingSizes :
            OwnDownload(c, offset, size, TRUE)
            => LET file == ServedFile(c)
                   n == Min(size, file.size - offset)
               IN /\ lastResponse'.kind = "chunk"
                  /\ lastResponse'.actualSize = n
                  /\ PayloadBytes(lastResponse'.payload)
                       = FirmwareBytes(file.data, offset, n)
      ]_vars

\* C13: every download answered with a chunk has offset + actualSize <=
\* totalSize, a download with offset >= totalSize is answered with an error
\* and leaves the session as it was, and the lastOffset of every session is
\* at most the size of its artifact.
ReadWithinArtifact ==
    [][\A c \in DOMAIN deviceConnections, sid \in SessionIds,
          offset \in Offsets :
         ( /\ HasSession(activeSessions, sid)
           /\ handleFirmwareDownload(c, sid, offset, 0, FALSE, TRUE) )
         => LET session == GetSession(activeSessions, sid)
                totalSize == firmwareDir[session.firmwareInfo.path].size
            IN /\ lastResponse'.kind = "chunk"
                    => offset + lastResponse'.actualSize <= totalSize
               /\ offset >= totalSize
                    => /\ lastResponse'.kind = "error"
                       /\ activeSessions' = activeSessions
               /\ \A i \in DOMAIN activeSessions' :
                     activeSessions'[i].lastOffset
                        <= activeSessions'[i].firmwareInfo.size
      ]_vars

\* C14 as stated: the size of every download response lies in
\* [MIN_CHUNK_SIZE, MAX_CHUNK_SIZE].
ResponseSizeInRange ==
    lastResponse.kind = "chunk"
    => /\ MIN_CHUNK_SIZE <= lastResponse.actualSize
       /\ lastResponse.actualSize <= MAX_CHUNK_SIZE

\* C14: for any requested size and any error history the chunk size applied
\* to a download, after halving and clamping, lies in [MIN_CHUNK_SIZE,
\* MAX_CHUNK_SIZE]; a download answered with a chunk returns
\* min(chunkSize, totalSize - offset) bytes of the file, at most
\* MAX_CHUNK_SIZE and fewer than MIN_CHUNK_SIZE only when fewer are left.
ChunkSizeClamped ==
    [][\A c \in DOMAIN deviceConnections :
         \A offset \in SizingOffsets, size \in SizingSizes :
            OwnDownload(c, offset, size, TRUE)
            => LET file == ServedFile(c)
                   chunkSize ==
                       AppliedChunkSize(
                           size, deviceConnections'[c].chunksRequested,
                           retryCount)
                   actualSize == lastResponse'.actualSize
               IN /\ MIN_CHUNK_SIZE <= chunkSize
                  /\ chunkSize <= MAX_CHUNK_SIZE
                  /\ lastResponse'.kind = "chunk"
                       => /\ actualSize = Min(chunkSize, file.size - offset)
                          /\ actualSize <= MAX_CHUNK_SIZE
                          /\ actualSize < MIN_CHUNK_SIZE
                               => actualSize = file.size - offset
                          /\ PayloadBytes(lastResponse'.payload)
                               = FirmwareBytes(file.data, offset, actualSize)
      ]_vars

\* a final chunk shorter than MIN_CHUNK_SIZE served under a high error rate
ShortFinalChunkReached ==
    /\ lastResponse.kind = "chunk"
    /\ lastResponse.actualSize < MIN_CHUNK_SIZE
    /\ \E c \in DOMAIN deviceConnections :
          ErrorRateHigh(deviceConnections[c].chunksRequested, retryCount)

\* C15: once a connection has issued more than WARMUP_REQUESTS requests and
\* retryCount / chunksRequested has exceeded 0.15, the chunk size applied
\* to the next download of the connection is at most the chunk size
\* applied to the previous one and at least MIN_CHUNK_SIZE.  (The previous
\* download was answered, with a chunk that did not reach the end of the
\* file, so that its size is the chunk size applied; the next download
\* asks for the same size.)
ChunkSizeOnlyShrinks ==
    [][\A c \in DOMAIN deviceConnections :
         \A offset \in SizingOffsets, size \in SizingSizes,
            writeOk \in BOOLEAN :
            ( /\ ErrorRateHigh(deviceConnections[c].chunksRequested, retryCount)
              /\ lastResponse.kind = "chunk"
              /\ lastResponse.header.o + lastResponse.actualSize
                    < ServedFile(c).size
              /\ lastResponse.actualSize
                    = AppliedChunkSize(size,
                                       deviceConnections[c].chunksRequested,
                                       retryCount)
              /\ OwnDownload(c, offset, size, writeOk) )
            => LET chunkSize ==
                       AppliedChunkSize(
                           size, deviceConnections'[c].chunksRequested,
                           retryCount)
               IN /\ chunkSize <= lastResponse.actualSize
                  /\ chunkSize >= MIN_CHUNK_SIZE
      ]_vars

----------------------------------------------------------------------------
(* Repeated downloads *)

\* the sizes a download at offset can have: the size asked for, as it is
\* or halved, clamped, and no more than what is left of the file
ServableSizes(file, offset, size) ==
    { Min(chunkSize, file.size - offset) :
        chunkSize \in { AppliedChunkSize(size, 0, 0),
                        AppliedChunkSize(size, WARMUP_REQUESTS + 1,
                                         WARMUP_REQUESTS + 1) } }

\* calculateCRC16 of the bytes [offset, offset + n) of the stored body
\* (data 0, 600 bytes), for the offsets and sizes of SpecRepeat, computed
\* once
RangeCrcs ==
    <<>> @@
    [ k \in UNION { { <<0, 600, offset, n>> :
                        n \in UNION { ServableSizes([size |-> 600], offset, size) :
                                      size \in RepeatSizes } } :
                    offset \in SizingOffsets } |->
        calculateCRC16(FirmwareBytes(k[1], k[3], k[4])) ]

----------------------------------------------------------------------------
(* Failing requests *)

\* the answer to a failing request of connection c: one error object with
\* this code, the connection still open and bound to the session it was
\* bound to, and no session created, removed or modified
AnsweredWithError(c, code) ==
    /\ lastResponse' = [kind |-> "error", code |-> code, retryable |-> FALSE]
    /\ activeSessions' = activeSessions
    /\ sessionCounter' = sessionCounter
    /\ c \in DOMAIN deviceConnections'
    /\ deviceConnections'[c].currentSession
          = deviceConnections[c].currentSession
    /\ CanRequest(c)'

\* C17: every failing request (a line that is not JSON, an unknown action,
\* an unknown sessionId in download, verify or resume, a check with no
\* firmware stored, a verify without a hash) is answered with one error
\* object that carries a code; the connection stays open, and no session
\* is created, removed or modified.
FailingRequestAnswered ==
    [][\A c \in DOMAIN deviceConnections :
         /\ \A parses \in BOOLEAN :
               handleBadRequest(c, parses, TRUE)
               => AnsweredWithError(c, "REQUEST_ERROR")
         /\ \A d \in Devices :
               (DOMAIN firmwareDir = {} /\ handleFirmwareCheck(c, d, TRUE))
               => AnsweredWithError(c, "NO_FIRMWARE")
         /\ \A sid \in SessionIds :
               /\ \A offset \in Offsets :
                     ( /\ ~HasSession(activeSessions, sid)
                       /\ handleFirmwareDownload(c, sid, offset, 0, FALSE, TRUE) )
                     => AnsweredWithError(c, "INVALID_SESSION")
               /\ \A h \in VerifyHashes(sid), hashType \in HashTypes :
                     ( /\ ~HasSession(activeSessions, sid)
                       /\ handleFirmwareVerify(c, sid, h, hashType, TRUE) )
                     => AnsweredWithError(c, "INVALID_SESSION")
               /\ ( /\ ~HasSession(activeSessions, sid)
                    /\ handleDownloadResume(c, sid, TRUE) )
                  => AnsweredWithError(c, "INVALID_SESSION")
               /\ \A hashType \in HashTypes :
                     ( /\ HasSession(activeSessions, sid)
                       /\ handleFirmwareVerify(c, sid, NoHash, hashType, TRUE) )
                     => AnsweredWithError(c, "VERIFY_ERROR")
      ]_vars

\* a request was answered with an error while sessions are open and the
\* connection has made an earlier request
FailingRequestReached ==
    /\ lastResponse.kind = "error"
    /\ lastResponse.code \in {"REQUEST_ERROR", "NO_FIRMWARE",
                              "INVALID_SESSION", "VERIFY_ERROR"}
    /\ activeSessions # <<>>
    /\ \E c \in DOMAIN deviceConnections :
          deviceConnections[c].currentSession # NoSession

\* C18: a download whose read of the artifact fails (offset at or past the
\* end, file missing) is answered with the error code READ_ERROR flagged
\* retryable: true, and leaves the session's lastOffset and
\* downloadedChunks unchanged.
ReadErrorRetryable ==
    [][\A c \in DOMAIN deviceConnections, sid \in SessionIds,
          offset \in Offsets :
         ( /\ HasSession(activeSessions, sid)
           /\ ReadFails(firmwareDir,
                        GetSession(activeSessions, sid).firmwareInfo.path,
                        offset)
           /\ handleFirmwareDownload(c, sid, offset, 0, FALSE, TRUE) )
         => /\ lastResponse'.kind = "error"
            /\ lastResponse'.code = "READ_ERROR"
            /\ lastResponse'.retryable
            /\ GetSession(activeSessions', sid).lastOffset
                  = GetSession(activeSessions, sid).lastOffset
            /\ GetSession(activeSessions', sid).downloadedChunks
                  = GetSession(activeSessions, sid).downloadedChunks
      ]_vars

----------------------------------------------------------------------------
(* Checksums *)

\* the bytes of the text "123456789"
ReferenceInput == <<49, 50, 51, 52, 53, 54, 55, 56, 57>>

\* C19 as stated: calculateCRC16 returns 0xBB3D (47933) for "123456789".
CrcReferenceVectorArc ==
    ( /\ lastResponse.kind = "chunk"
      /\ PayloadBytes(lastResponse.payload) = ReferenceInput )
    => /\ lastResponse.header.c = calculateCRC16(ReferenceInput)
       /\ lastResponse.header.c = 47933

\* C19: calculateCRC16 (initial value 0xFFFF, per byte XOR then 8 steps of
\* shift right, with XOR 0xA001 when the low bit was set, masked to 16
\* bits) returns 0x4B37 (19255) for the 9 bytes "123456789".
CrcReferenceVector ==
    ( /\ lastResponse.kind = "chunk"
      /\ PayloadBytes(lastResponse.payload) = ReferenceInput )
    => /\ lastResponse.header.c = calculateCRC16(ReferenceInput)
       /\ lastResponse.header.c = 19255

\* a chunk of the 9 bytes "123456789" was served
ReferenceInputServed ==
    /\ lastResponse.kind = "chunk"
    /\ lastResponse.actualSize = 9
    /\ PayloadBytes(lastResponse.payload) = ReferenceInput

----------------------------------------------------------------------------
(* Compression *)

\* C21: a chunk response has f = 1 only if the request asked for
\* compression, the chunk read is longer than 100 bytes and its compressed
\* form is shorter than 85% of it; in every other case f = 0, the payload
\* is the bytes read and header.s equals actualSize.  In all cases
\* header.s is the number of payload bytes sent.
CompressedOnlyWhenWorthIt ==
    [][\A c \in DOMAIN deviceConnections :
         \A offset \in Offsets, size \in RequestSizes,
            useCompression \in BOOLEAN :
            ( /\ HasSession(activeSessions, deviceConnections[c].currentSession)
              /\ handleFirmwareDownload(c, deviceConnections[c].currentSession,
                                        offset, size, useCompression, TRUE)
              /\ lastResponse'.kind = "chunk" )
            => LET header == lastResponse'.header
                   source == FirmwareBytes(ServedFile(c).data, offset,
                                           lastResponse'.actualSize)
                   sent == PayloadBytes(lastResponse'.payload)
                   worthIt == /\ useCompression
                              /\ Len(source) > 100
                              /\ Len(gzipSync(source)) * 100 < Len(source) * 85
               IN /\ header.f = (IF worthIt THEN 1 ELSE 0)
                  /\ header.f = 0
                       => /\ sent = source
                          /\ header.s = lastResponse'.actualSize
                  /\ header.f = 1 => sent = gzipSync(source)
                  /\ header.s = Len(sent)
      ]_vars

\* a chunk longer than 100 bytes was sent in less than 85% of its size
CompressionWorthItReached ==
    /\ lastResponse.kind = "chunk"
    /\ lastResponse.header.f = 1
    /\ lastResponse.actualSize > 100
    /\ lastResponse.header.s * 100 < lastResponse.actualSize * 85

----------------------------------------------------------------------------
(* Handlers in flight.  handleFirmwareCheck gives up the thread at        *)
(* await getLatestFirmwareInfo() and at the await of its send; between    *)
(* the two it runs without a break.  checkHandlers[c] is the call made    *)
(* for connection c: where it stands, what getLatestFirmwareInfo gave it, *)
(* the calls that were in flight together with it, and the session it     *)
(* answered with.  What runs between the two halves of a call is left     *)
(* open: other calls, drops, the sweep, downloads.                        *)

\* getLatestFirmwareInfo() returned null
NoFirmwareInfo == [version |-> ""]

InFlight == { c \in DOMAIN checkHandlers : checkHandlers[c].pc = "awaiting" }

\* handleTcpRequest up to the await in handleFirmwareCheck: the request is
\* counted and getLatestFirmwareInfo has read the directory
checkBegin(clientId, deviceId) ==
    /\ UNCHANGED <<deviceVars, dataEvent>>
    /\ CanRequest(clientId)
    /\ clientId \notin InFlight
    /\ deviceConnections' = CountRequest(deviceConnections, clientId)
    /\ checkHandlers' =
         [ c \in DOMAIN checkHandlers \cup {clientId} |->
             IF c = clientId
             THEN [ pc |-> "awaiting",
                    deviceId |-> deviceId,
                    firmwareInfo |->
                        IF DOMAIN firmwareDir = {} THEN NoFirmwareInfo
                        ELSE getLatestFirmwareInfo(firmwareDir),
                    overlapped |-> InFlight,
                    sessionId |-> NoSession ]
             ELSE IF c \in InFlight
             THEN [checkHandlers[c] EXCEPT !.overlapped = @ \cup {clientId}]
             ELSE checkHandlers[c] ]
    /\ UNCHANGED <<now, firmwareDir, mtimeClock, activeSessions, sessionCounter,
                   totalConnections, retryCount, chunksServed, lastResponse>>

\* connection.currentSession = sessionId, if the connection is still there
BindIfConnected(connections, clientId, sessionId) ==
    IF clientId \in DOMAIN connections
    THEN [connections EXCEPT ![clientId].currentSession = sessionId]
    ELSE connections

\* handleFirmwareCheck from the await to its send: the lookup, the session
\* taken or created, the connection bound, the response
checkReturn(clientId, writeOk) ==
    /\ UNCHANGED <<deviceVars, dataEvent>>
    /\ clientId \in InFlight
    /\ UNCHANGED <<now, firmwareDir, mtimeClock, retryCount, chunksServed,
                   totalConnections>>
    /\ LET handler == checkHandlers[clientId]
           firmwareInfo == handler.firmwareInfo
           deviceId == handler.deviceId
           i == ExistingSessionIndex(activeSessions, deviceId)
       IN IF firmwareInfo = NoFirmwareInfo
          THEN /\ lastResponse' = Written(ErrorResponse("NO_FIRMWARE"), writeOk)
               /\ checkHandlers' =
                    [checkHandlers EXCEPT ![clientId].pc = "returned"]
               /\ UNCHANGED <<activeSessions, sessionCounter, deviceConnections>>
          ELSE IF ResumesExisting(activeSessions, deviceId, firmwareInfo)
          THEN /\ activeSessions' =
                    [activeSessions EXCEPT ![i].interrupted = FALSE]
               /\ UNCHANGED sessionCounter
               /\ deviceConnections' =
                    BindIfConnected(deviceConnections, clientId,
                                    activeSessions[i].sessionId)
               /\ checkHandlers' =
                    [checkHandlers EXCEPT
                       ![clientId].pc = "returned",
                       ![clientId].sessionId = activeSessions[i].sessionId]
               /\ lastResponse' =
                    Written(CheckResponse(activeSessions[i], firmwareInfo),
                            writeOk)
          ELSE LET session == NewSession(sessionCounter + 1, clientId,
                                         deviceId, firmwareInfo, now)
               IN /\ sessionCounter' = sessionCounter + 1
                  /\ activeSessions' = Append(activeSessions, session)
                  /\ deviceConnections' =
                       BindIfConnected(deviceConnections, clientId,
                                       session.sessionId)
                  /\ checkHandlers' =
                       [checkHandlers EXCEPT
                          ![clientId].pc = "returned",
                          ![clientId].sessionId = session.sessionId]
                  /\ lastResponse' =
                       Written(CheckResponse(session, firmwareInfo), writeOk)

\* Two connections of one device: checks in flight together, downloads,
\* resumes, drops and the sweep in any order between their halves.
NextConcurrent ==
    \/ \E c \in Clients :
         totalConnections < MaxConnections /\ Connect(c)
    \/ \E c \in Clients : cleanupConnection(c)
    \/ \E c \in Clients, d \in OneDevice :
         WithinRequests(c) /\ WithinSessions(d) /\ checkBegin(c, d)
    \/ \E c \in Clients, writeOk \in BOOLEAN : checkReturn(c, writeOk)
    \/ \E c \in Clients :
         /\ WithinRequests(c)
         /\ WithinDownloads(TRUE)
         /\ OwnDownload(c, 0, 0, TRUE)
    \/ \E c \in Clients, sid \in RequestableIds :
         WithinRequests(c) /\ handleDownloadResume(c, sid, TRUE)
    \/ SessionCleanup

SpecConcurrent == InitStocked /\ [][NextConcurrent]_vars

----------------------------------------------------------------------------
(* The life of a session in the registry *)

RegisteredIds(sessions) == { sessions[i].sessionId : i \in 1..Len(sessions) }

CompletedIds(sessions) ==
    { sessions[i].sessionId : i \in { j \in 1..Len(sessions) : sessions[j].completed } }

\* the step is a check that found no session to resume and made one
CheckCreates ==
    \E c \in OneClient, d \in OneDevice :
        /\ handleFirmwareCheck(c, d, TRUE)
        /\ DOMAIN firmwareDir # {}
        /\ ~ResumesExisting(activeSessions, d, getLatestFirmwareInfo(firmwareDir))

----------------------------------------------------------------------------
(* The device: FotaSIM800L driven by checkForFirmwareUpdates.  It checks   *)
(* with the server on a connection of its own, closes it, and downloads on *)
(* a second one.  The chunk headers it reads carry status, offset, size    *)
(* and total; which header answers a request, and which bytes follow it,   *)
(* is open.                                                                *)

MaxAttempts == 2
\* download requests in one run of downloadAndApplyUpdate
MaxChunks == 3

\* the sizes of the firmware file: one chunk, and more than BUFFER_SIZE
DeviceSizes == {3, 1500}
DeviceFiles ==
    { [size |-> size, data |-> data, mtime |-> 0] :
        size \in DeviceSizes, data \in DataIds }
\* the bytes serialAT.available() lets one pass of the read loop take
DeviceBursts == {700, BUFFER_SIZE}

\* the object after the constructor, Update not begun
DeviceIdle(version) ==
    [ state |-> "IDLE",
      current_version |-> version,
      update_version |-> "",
      total_size |-> 0,
      update_md5 |-> NoHash,
      current_offset |-> 0,
      response_size |-> 0,
      update_in_progress |-> FALSE,
      tcp_connected |-> FALSE,
      running |-> FALSE,
      finalized |-> FALSE,
      failed |-> FALSE,
      restarted |-> FALSE,
      attempts |-> 0,
      chunks |-> 0 ]

InitDevice ==
    /\ now = 0
    /\ \E v \in Versions, file \in DeviceFiles :
          firmwareDir = [ w \in {v} |-> file ]
    /\ mtimeClock = 0
    /\ activeSessions = <<>>
    /\ sessionCounter = 0
    /\ deviceConnections = <<>>
    /\ totalConnections = 0
    /\ retryCount = 0
    /\ chunksServed = 0
    /\ lastResponse = NoResponse
    /\ \E v \in Versions : device = DeviceIdle(v)
    /\ serialAT = <<>>
    /\ reader = ReaderIdle
    /\ delivered = <<>>
    /\ checkHandlers = <<>>
    /\ dataEvent = NoDataEvent

\* the length of the hex string of a digest
HexLength(hash) ==
    IF hash.kind = "md5" THEN 32 ELSE IF hash.kind = "sha256" THEN 64 ELSE 0

\* Update.md5String(): the MD5 of the bytes written, in lower case
Md5String(bytes) ==
    IF \E data \in DataIds : bytes = FirmwareBytes(data, 0, Len(bytes))
    THEN Digest("md5",
                [ data |-> CHOOSE data \in DataIds :
                              bytes = FirmwareBytes(data, 0, Len(bytes)),
                  size |-> Len(bytes) ])
    ELSE [kind |-> "md5", data |-> -1, size |-> Len(bytes), upper |-> FALSE]

\* a.equalsIgnoreCase(b)
equalsIgnoreCase(a, b) == toLowerCase(a) = toLowerCase(b)

\* Update.end() after Update.setMD5(expected_md5): the platform finishes the
\* staged image when every byte was written and, when it was given a digest
\* of 32 characters, the digest of the bytes written is that one; endOk is
\* whether the platform's own last steps succeed.
UpdateEnd(written, size, expected_md5, endOk) ==
    /\ endOk
    /\ Len(written) = size
    /\ HexLength(expected_md5) = 32 => Md5String(written) = expected_md5

\* verifyMD5 once Update.end() has returned true
Md5Verified(written, expected_md5) ==
    HexLength(expected_md5) = 32
        => equalsIgnoreCase(Md5String(written), expected_md5)

\* disconnectTCP(); return false, out of checkForUpdates
NoUpdate(dev) ==
    [dev EXCEPT !.state = "IDLE", !.tcp_connected = FALSE]

\* a failure that returns false and leaves everything open
UpdateFailedLeavesOpen(dev) == [dev EXCEPT !.state = "IDLE", !.failed = TRUE]

\* Update.abort(); disconnectTCP(); update_in_progress = false; return
\* false, and checkForFirmwareUpdates goes on with the current firmware
UpdateFailed(dev) ==
    [dev EXCEPT !.state = "IDLE", !.running = FALSE, !.tcp_connected = FALSE,
                !.update_in_progress = FALSE, !.failed = TRUE]

deviceUnchanged ==
    UNCHANGED <<now, firmwareDir, mtimeClock, activeSessions, sessionCounter,
                deviceConnections, totalConnections, retryCount, chunksServed,
                checkHandlers, delivered, dataEvent>>

\* checkForUpdates: connectTCP and the check request
checkForUpdatesSend(connectOk, sendOk) ==
    /\ device.state = "IDLE"
    /\ device.attempts < MaxAttempts
    /\ device' =
         IF ~connectOk THEN [device EXCEPT !.attempts = @ + 1]
         ELSE IF ~sendOk THEN NoUpdate([device EXCEPT !.attempts = @ + 1])
         ELSE [device EXCEPT !.attempts = @ + 1, !.state = "CHECKING",
                             !.failed = FALSE, !.tcp_connected = TRUE]
    /\ lastResponse' = NoResponse
    /\ UNCHANGED <<serialAT, reader>>
    /\ deviceUnchanged

\* checkForUpdates: readResponseHeader and the comparison of the versions
checkForUpdates(timedOut) ==
    /\ device.state = "CHECKING"
    /\ IF timedOut \/ lastResponse.kind # "check"
       THEN /\ timedOut \/ lastResponse.kind = "error"
            /\ device' = NoUpdate(device)
       ELSE LET dev == [device EXCEPT !.update_version = lastResponse.version,
                                      !.total_size = lastResponse.size,
                                      !.update_md5 = lastResponse.md5]
            IN device' =
                 IF dev.update_version = dev.current_version
                 THEN NoUpdate(dev)
                 ELSE [NoUpdate(dev) EXCEPT !.state = "AVAILABLE"]
    /\ lastResponse' = NoResponse
    /\ UNCHANGED <<serialAT, reader>>
    /\ deviceUnchanged

\* downloadAndApplyUpdate up to the loop: connectTCP, Update.begin,
\* Update.setMD5, buffer_pos = 0, current_offset = 0
downloadAndApplyUpdate(connectOk, beginOk) ==
    /\ device.state = "AVAILABLE"
    /\ IF ~connectOk \/ ~beginOk
       THEN /\ device' = [NoUpdate(device) EXCEPT !.failed = TRUE]
            /\ UNCHANGED reader
       ELSE /\ device' = [device EXCEPT !.state = "REQUEST",
                                        !.tcp_connected = TRUE,
                                        !.running = TRUE,
                                        !.current_offset = 0,
                                        !.update_in_progress = TRUE,
                                        !.chunks = 0]
            /\ reader' = ReaderIdle
    /\ UNCHANGED <<serialAT, lastResponse>>
    /\ deviceUnchanged

\* min(BUFFER_SIZE, total_size - current_offset)
RequestedSize(dev) == Min(BUFFER_SIZE, dev.total_size - dev.current_offset)

\* the loop: the download request for the chunk at current_offset
requestChunk(sendOk) ==
    /\ device.state = "REQUEST"
    /\ device.current_offset < device.total_size
    /\ device.chunks < MaxChunks
    /\ device' = IF sendOk
                 THEN [device EXCEPT !.state = "HEADER", !.chunks = @ + 1]
                 ELSE UpdateFailed(device)
    /\ UNCHANGED <<serialAT, reader, lastResponse>>
    /\ deviceUnchanged

\* no line within 5 seconds, or one that is not JSON
NoHeader == [status |-> "none", offset |-> 0, size |-> 0, total |-> 0]

\* the headers that may answer the request
PeerHeaders(dev) ==
    { NoHeader,
      [status |-> "error", offset |-> dev.current_offset, size |-> 0,
       total |-> dev.total_size] } \cup
    { [status |-> "success", offset |-> offset, size |-> size, total |-> total] :
        offset \in {dev.current_offset, dev.current_offset + 1},
        size \in {0, 1, RequestedSize(dev), 1500},
        total \in {dev.total_size, dev.total_size + 1} }

\* a device that takes any offset and total
InvalidChunkNever(dev, header) == FALSE

\* response_offset != current_offset || response_total != total_size
InvalidChunk(dev, header) ==
    header.offset # dev.current_offset \/ header.total # dev.total_size

\* the loop: readResponseHeader, the status, the validation of offset and
\* total, and the call of receiveBinaryData(response_size); data names the
\* bytes that follow the header
readChunkHeader(header, data) ==
    /\ device.state = "HEADER"
    /\ IF header = NoHeader \/ header.status # "success"
          \/ InvalidChunk(device, header)
       THEN /\ device' = UpdateFailed(device)
            /\ UNCHANGED <<serialAT, reader>>
       ELSE /\ device' = [device EXCEPT !.state = "BINARY",
                                        !.response_size = header.size]
            /\ reader' = [ reader EXCEPT
                             !.pc = IF header.size = 0 THEN "idle" ELSE "binary",
                             !.chunk_size = header.size,
                             !.remaining = header.size,
                             !.bytes_read = 0 ]
            /\ serialAT' = FirmwareBytes(data, header.offset, header.size)
    /\ UNCHANGED lastResponse
    /\ deviceUnchanged

\* Update.write(buffer, buffer_pos) has room for the bytes this pass of the
\* read loop would hand it
UpdateHasRoom(burst) ==
    LET to_read == Min(BUFFER_SIZE - Len(reader.buffer), reader.remaining)
        n == Min(Min(to_read, burst), Len(serialAT))
    IN Len(reader.flash) + Len(reader.buffer) + n <= device.total_size

\* a loop that forgets to add response_size to current_offset
chunkReceivedNoAdvance ==
    /\ device.state = "BINARY"
    /\ reader.pc \in {"idle", "failed"}
    /\ device' = IF reader.pc = "idle"
                 THEN [device EXCEPT !.state = "REQUEST"]
                 ELSE UpdateFailed(device)
    /\ UNCHANGED <<serialAT, reader, lastResponse>>
    /\ deviceUnchanged

\* the loop after receiveBinaryData has returned: current_offset +=
\* response_size, or the abort
chunkReceived ==
    /\ device.state = "BINARY"
    /\ reader.pc \in {"idle", "failed"}
    /\ device' = IF reader.pc = "idle"
                 THEN [device EXCEPT !.state = "REQUEST",
                                     !.current_offset = @ + device.response_size]
                 ELSE UpdateFailed(device)
    /\ UNCHANGED <<serialAT, reader, lastResponse>>
    /\ deviceUnchanged

\* a caller that restarts whatever downloadAndApplyUpdate returned
RestartsAlways(ok) == TRUE

\* ESP.restart() after downloadAndApplyUpdate has returned ok
Restarts(ok) == ok

\* after the loop: verifyMD5(update_md5), and what checkForFirmwareUpdates
\* does with the result
verifyMD5(endOk) ==
    /\ device.state = "REQUEST"
    /\ device.current_offset >= device.total_size
    /\ LET ended == UpdateEnd(reader.flash, device.total_size,
                              device.update_md5, endOk)
           ok == ended /\ Md5Verified(reader.flash, device.update_md5)
       IN device' = [ device EXCEPT
                        !.state = IF Restarts(ok) THEN "RESTARTED" ELSE "IDLE",
                        !.running = FALSE,
                        !.finalized = ended,
                        !.failed = ~ok,
                        !.restarted = Restarts(ok),
                        !.tcp_connected = FALSE,
                        !.update_in_progress = FALSE ]
    /\ UNCHANGED <<serialAT, reader, lastResponse>>
    /\ deviceUnchanged

\* the server has seen the socket's last event: its 'connection' once the
\* device has connected, its 'close' once the device has disconnected
SocketSettled ==
    device.tcp_connected <=> FramingClient \in DOMAIN deviceConnections

NextDevice ==
    \/ \E connectOk \in BOOLEAN, sendOk \in BOOLEAN :
         SocketSettled /\ checkForUpdatesSend(connectOk, sendOk)
    \/ /\ device.tcp_connected
       /\ Connect(FramingClient)
    \/ /\ ~device.tcp_connected
       /\ cleanupConnection(FramingClient)
    \/ /\ device.state = "CHECKING"
       /\ lastResponse = NoResponse
       /\ handleFirmwareCheck(FramingClient, FramingDevice, TRUE)
    \/ \E timedOut \in BOOLEAN : SocketSettled /\ checkForUpdates(timedOut)
    \/ \E connectOk \in BOOLEAN, beginOk \in BOOLEAN :
         SocketSettled /\ downloadAndApplyUpdate(connectOk, beginOk)
    \/ \E sendOk \in BOOLEAN : SocketSettled /\ requestChunk(sendOk)
    \/ \E header \in PeerHeaders(device), data \in DataIds :
         readChunkHeader(header, data)
    \/ \E burst \in DeviceBursts, flashOk \in BOOLEAN :
         /\ device.state = "BINARY"
         /\ flashOk => UpdateHasRoom(burst)
         /\ receiveBinaryData(burst, flashOk)
    \/ /\ device.state = "BINARY"
       /\ receiveBinaryDataTimeout
    \/ chunkReceived
    \/ \E endOk \in BOOLEAN : verifyMD5(endOk)

SpecDevice == InitDevice /\ [][NextDevice]_vars

----------------------------------------------------------------------------
(* The device when the transport fails *)

\* receiveBinaryData returned false because 30 seconds passed, not because
\* of the flash
ChunkTimedOut ==
    /\ reader.pc = "failed"
    /\ reader.remaining > 0
    /\ Len(reader.buffer) < BUFFER_SIZE

\* the step is one in which the transport fails during the download: the
\* request cannot be sent, no header line arrives, or the chunk's bytes
\* time out
TransportLost ==
    \/ requestChunk(FALSE)
    \/ \E data \in DataIds : readChunkHeader(NoHeader, data)
    \/ ChunkTimedOut /\ chunkReceived

\* C24: when the transport fails or times out during the download (the
\* request cannot be sent, the header line is not received, the chunk's
\* bytes time out), the device does not abort the update: the staged write
\* stays open and the update stays in progress, so that it can reconnect and
\* resume from the session's lastOffset.
TransportLossKeepsUpdate ==
    [][ (device.update_in_progress /\ TransportLost)
          => (device'.update_in_progress /\ device'.running) ]_vars

----------------------------------------------------------------------------
(* The device's verification *)

\* the bytes written have the digest the check declared
WrittenDigestMatches(dev, r) ==
    toLowerCase(Md5String(r.flash)) = toLowerCase(dev.update_md5)

----------------------------------------------------------------------------
(* The device's comparison of versions *)

\* sscanf(v.c_str(), "%d.%d.%d", &major, &minor, &patch) on the versions of
\* the model
ParseVersion(v) ==
    IF v = "1.0.0" THEN <<1, 0, 0>>
    ELSE IF v = "1.1.0" THEN <<1, 1, 0>>
    ELSE <<0, 0, 0>>

\* compareVersions(v1, v2): 1, -1 or 0
compareVersions(v1, v2) ==
    LET a == ParseVersion(v1)
        b == ParseVersion(v2)
    IN IF a[1] > b[1] THEN 1 ELSE IF a[1] < b[1] THEN -1
       ELSE IF a[2] > b[2] THEN 1 ELSE IF a[2] < b[2] THEN -1
       ELSE IF a[3] > b[3] THEN 1 ELSE IF a[3] < b[3] THEN -1
       ELSE 0

\* C26: when the device has read a successful answer to its check, it goes
\* on to download only if the server's version is strictly newer than its
\* current version, compared as major.minor.patch numbers; when the
\* server's version is equal or older it is idle again and downloads
\* nothing.
DownloadOnlyWhenNewer ==
    [][ (checkForUpdates(FALSE) /\ lastResponse.kind = "check")
          => IF compareVersions(lastResponse.version,
                                device.current_version) > 0
             THEN device'.state = "AVAILABLE"
             ELSE device'.state = "IDLE" ]_vars

----------------------------------------------------------------------------
(* The device's offset *)

----------------------------------------------------------------------------
(* The device when a flash write fails *)

\* receiveBinaryData returned false at "Error writing to flash"
FlashWriteFailed == reader.pc = "failed" /\ ~ChunkTimedOut

\* the registry has a session of the device that is not completed
SessionAvailable(sessions) ==
    \E i \in 1..Len(sessions) :
        sessions[i].deviceId = FramingDevice /\ ~sessions[i].completed

----------------------------------------------------------------------------
(* The device and the chunk's CRC *)

\* header.c of the chunk [offset, offset + size) as the server computes it:
\* the CRC16 of the artifact's bytes in that range
HeaderCrc(offset, size) ==
    calculateCRC16(
        FirmwareBytes(firmwareDir[LatestVersion(firmwareDir)].data, offset, size))

\* C29: the chunk's CRC is enforced: the bytes of a chunk whose crc16
\* differs from the c of its header are never written to flash (stated for
\* the chunks that fit the buffer, which are written in one piece).
ChunkCrcEnforced ==
    [][ ( /\ device.state = "BINARY"
          /\ reader.chunk_size <= BUFFER_SIZE
          /\ Len(reader.flash) = device.current_offset
          /\ Len(reader'.flash) = Len(reader.flash) + reader.chunk_size )
        => calculateCRC16(SubSeq(reader'.flash, Len(reader.flash) + 1,
                                 Len(reader'.flash)))
             = HeaderCrc(device.current_offset, reader.chunk_size) ]_vars

----------------------------------------------------------------------------
(* The device's staging buffer *)

\* the payload bytes of the chunk in the order they came: those written,
\* those in the buffer, those still to be read
PayloadInOrder(r, serial) == r.flash \o r.buffer \o serial

\* C30: during a download the buffer never holds more than BUFFER_SIZE
\* bytes, whatever size the header announced; when a chunk has been
\* received in full the buffer is empty; and what is handed to the flash
\* write is the payload as received, byte for byte and in order: a pass of
\* the read loop moves bytes from the serial line to the buffer and from
\* the buffer to flash without changing, dropping or reordering any.
BufferBounded ==
    [][ /\ Len(reader'.buffer) <= BUFFER_SIZE
        /\ (device'.state = "BINARY" /\ reader'.pc = "idle")
              => reader'.buffer = <<>>
        /\ (device.state = "BINARY" /\ device'.state = "BINARY")
              => /\ PayloadInOrder(reader', serialAT')
                      = PayloadInOrder(reader, serialAT)
                 /\ Len(reader'.flash) >= Len(reader.flash)
        /\ Len(reader'.flash) > Len(reader.flash)
              => /\ reader.buffer \o SubSeq(serialAT, 1, Len(serialAT) - Len(serialAT'))
                      = SubSeq(reader'.flash, Len(reader.flash) + 1,
                               Len(reader'.flash))
                 /\ SubSeq(reader'.flash, 1, Len(reader.flash)) = reader.flash
      ]_vars

\* a chunk announced larger than the buffer was received in full: the buffer
\* was filled and written out on the way
LargeChunkReceived ==
    /\ device.state = "BINARY"
    /\ reader.pc = "idle"
    /\ reader.chunk_size > BUFFER_SIZE
    /\ reader.bytes_read = reader.chunk_size
    /\ Len(reader.flash) = reader.chunk_size

----------------------------------------------------------------------------
(* Termination of the device's update.  The artifact has 3 bytes and the   *)
(* header of every chunk that is served announces at least one byte.  The  *)
(* device's code runs on: a step that can be taken is taken, and each wait *)
(* for the modem ends with bytes or with its timeout.                      *)

InitAnswered ==
    /\ InitDevice
    /\ \A v \in DOMAIN firmwareDir : firmwareDir[v].size <= MaxChunks

NextAnswered ==
    /\ NextDevice
    /\ (device.state = "HEADER" /\ device'.state = "BINARY")
          => device'.response_size >= 1

SpecAnswered ==
    InitAnswered /\ [][NextAnswered]_vars /\ WF_vars(NextAnswered)

\* checkForUpdates or downloadAndApplyUpdate is running
UpdateRunning == device.state \notin {"IDLE", "RESTARTED"}

----------------------------------------------------------------------------
(* What lastOffset accounts for *)

\* byte b of the artifact is in a chunk the session has recorded as served
ByteServed(session, b) ==
    \E o \in DOMAIN session.chunks :
        o <= b /\ b < o + session.chunks[o].size

\* C32: in every state, every byte of the artifact below a session's
\* lastOffset was in some chunk served to that session, whatever offsets
\* were requested and in whatever order.
LastOffsetCovered ==
    \A i \in 1..Len(activeSessions) :
        \A b \in 0..(activeSessions[i].lastOffset - 1) :
            ByteServed(activeSessions[i], b)

----------------------------------------------------------------------------
(* A device that resumes.  It downloads the offsets in order, 256 or 512   *)
(* bytes at a time; the connection may drop at any moment and the write of *)
(* a chunk may fail; the device then connects again, sends resume and goes *)
(* on from the lastOffset of the answer.                                   *)

InitResume ==
    /\ now = 0
    /\ firmwareDir = [ v \in {"1.0.0"} |-> E2EArtifact ]
    /\ mtimeClock = 0
    /\ activeSessions = <<>>
    /\ sessionCounter = 0
    /\ deviceConnections = <<>>
    /\ totalConnections = 0
    /\ retryCount = 0
    /\ chunksServed = 0
    /\ lastResponse = NoResponse
    /\ \E k \in {DEFAULT_CHUNK_SIZE \div 2, DEFAULT_CHUNK_SIZE} : device = E2EIdle(k)
    /\ serialAT = <<>>
    /\ reader = NoReader
    /\ delivered = <<>>
    /\ checkHandlers = <<>>
    /\ dataEvent = NoDataEvent

\* the device reads the answer to its resume and continues from lastOffset
E2EReceiveResume ==
    /\ device.state = "resuming"
    /\ lastResponse.kind = "resume"
    /\ device' = [ device EXCEPT !.state = "downloading",
                                 !.offset = lastResponse.lastOffset ]
    /\ lastResponse' = NoResponse
    /\ UNCHANGED <<readerVars, checkHandlers, dataEvent>>
    /\ UNCHANGED <<now, firmwareDir, mtimeClock, activeSessions, sessionCounter,
                   deviceConnections, totalConnections, retryCount,
                   chunksServed>>

\* the connection the device is on has not been bound to its session
Unbound ==
    /\ E2EClient \in DOMAIN deviceConnections
    /\ deviceConnections[E2EClient].currentSession = NoSession

NextResume ==
    \/ /\ totalConnections < MaxConnections
       /\ Connect(E2EClient)
    \/ /\ device.state = "downloading"
       /\ cleanupConnection(E2EClient)
    \/ /\ device.state = "idle"
       /\ E2EClient \in DOMAIN deviceConnections
       /\ E2ESent("checking")
    \/ /\ device.state = "checking"
       /\ lastResponse = NoResponse
       /\ handleFirmwareCheck(E2EClient, E2EDevice, TRUE)
    \/ E2EReceiveCheck
    \/ \E writeOk \in BOOLEAN :
         /\ device.state = "downloading"
         /\ lastResponse = NoResponse
         /\ device.offset < device.total
         /\ ~Unbound
         /\ WithinDownloads(writeOk)
         /\ handleFirmwareDownload(E2EClient, device.sessionId, device.offset,
                                   device.k, FALSE, writeOk)
    \/ /\ E2EClient \in DOMAIN deviceConnections
       /\ E2EReceiveChunk
    \/ /\ device.state = "downloading"
       /\ Unbound
       /\ E2ESent("resuming")
    \/ /\ device.state = "resuming"
       /\ lastResponse = NoResponse
       /\ handleDownloadResume(E2EClient, device.sessionId, TRUE)
    \/ E2EReceiveResume

SpecResume == InitResume /\ [][NextResume]_vars

\* byte b of the artifact is in a chunk the device has received
ByteReceived(dev, b) ==
    \E i \in 1..Len(dev.received) :
        /\ dev.received[i].offset <= b
        /\ b < dev.received[i].offset + dev.received[i].size

\* C33: after a connection loss and a resume, every byte below the
\* lastOffset that resume returns has been received by the device, so that
\* going on from lastOffset skips nothing: a chunk the server accounted for
\* but that never arrived is not below it.
ResumeSkipsNothing ==
    [][ E2EReceiveResume
          => \A b \in 0..(lastResponse.lastOffset - 1) :
                ByteReceived(device, b) ]_vars

----------------------------------------------------------------------------
(* Interrupted sessions and live connections *)

\* some open connection has the session as its currentSession
BoundToLiveConnection(session) ==
    \E c \in DOMAIN deviceConnections :
        deviceConnections[c].currentSession = session.sessionId

\* C34: a session that a resume or a check has bound to a new, live
\* connection is not marked interrupted by the close of the connection it
\* was bound to before: a session is interrupted only while no open
\* connection is bound to it.
InterruptedOnlyWhenUnbound ==
    \A i \in 1..Len(activeSessions) :
        activeSessions[i].interrupted => ~BoundToLiveConnection(activeSessions[i])

----------------------------------------------------------------------------
(* Downloads that go on after a drop.  A device checks, its connection     *)
(* drops, it connects again and asks for chunks with the session id it     *)
(* was given, sending neither resume nor check; minutes pass and the       *)
(* sweep timer fires.                                                      *)

NextContinue ==
    \/ \E c \in OneClient :
         totalConnections < MaxConnections /\ Connect(c)
    \/ \E c \in OneClient : cleanupConnection(c)
    \/ \E c \in OneClient, d \in OneDevice :
         WithinRequests(c) /\ WithinSessions(d) /\ handleFirmwareCheck(c, d, TRUE)
    \/ \E c \in OneClient, sid \in RequestableIds :
         /\ WithinRequests(c) /\ WithinDownloads(TRUE)
         /\ \E offset \in {0, DEFAULT_CHUNK_SIZE} :
              handleFirmwareDownload(c, sid, offset, 0, FALSE, TRUE)
    \/ SessionCleanup
    \/ \E m \in SweepSteps : now + m <= MaxSweepTime /\ AdvanceTime(m)

SpecContinue == InitStocked /\ [][NextContinue]_vars

\* the step serves a chunk of the session at index i
ChunkServed(i) ==
    /\ i <= Len(activeSessions')
    /\ activeSessions'[i].sessionId = activeSessions[i].sessionId
    /\ activeSessions'[i].downloadedChunks > activeSessions[i].downloadedChunks

\* C35: a session that is served a download stops being treated as
\* interrupted, also when the device goes on with downloads on a new
\* connection without resume or check, so that the sweep's
\* interrupted-timeout rule does not evict a session that is being served.
ServedSessionNotInterrupted ==
    [][ \A i \in 1..Len(activeSessions) :
          ChunkServed(i) => ~activeSessions'[i].interrupted ]_vars

----------------------------------------------------------------------------
(* Completion and download progress *)

\* C36: verify marks a session completed only if its lastOffset equals the
\* size of the artifact; a verify with the right digest on a session whose
\* lastOffset is below the size does not complete it.
CompletedOnlyWhenDownloaded ==
    \A i \in 1..Len(activeSessions) :
        activeSessions[i].completed
            => activeSessions[i].lastOffset = activeSessions[i].firmwareInfo.size

----------------------------------------------------------------------------
(* Request lines that arrive together.  The socket's 'data' callback       *)
(* splits what it has at the newlines and calls handleTcpRequest for each  *)
(* line in turn, without awaiting it: a call runs until its first await    *)
(* and the callback goes on to the next line.  handleFirmwareDownload      *)
(* awaits getFirmwareChunk before it touches the session and writes;       *)
(* handleDownloadResume has no await before its write.  The calls that     *)
(* wait are resumed, first come first, once the callback has returned.     *)
(* dataEvent.messages are the lines still to dispatch, dataEvent.awaiting  *)
(* the calls at their await, dataEvent.written what socket.write was       *)
(* given, in order; seq is the place of the request among the requests of  *)
(* its connection (connection.chunksRequested when it was counted).        *)

MaxLines == 4           \* requests counted on the connection of these runs

DownloadLine(sessionId, offset) ==
    [action |-> "download", sessionId |-> sessionId, offset |-> offset]

ResumeLine(sessionId) ==
    [action |-> "resume", sessionId |-> sessionId, offset |-> 0]

\* the request lines a device sends with the session id it was given
Lines ==
    { DownloadLine(sid, o) : sid \in RequestableIds \ {0}, o \in {0, DEFAULT_CHUNK_SIZE} }
      \cup { ResumeLine(sid) : sid \in RequestableIds \ {0} }

\* one or two lines in one TCP segment
Segments == { <<l>> : l \in Lines } \cup { <<l1, l2>> : l1, l2 \in Lines }

\* no call is running or waiting
EventLoopIdle == dataEvent.messages = <<>> /\ dataEvent.awaiting = <<>>

segmentUnchanged ==
    UNCHANGED <<now, firmwareDir, mtimeClock, sessionCounter, totalConnections,
                retryCount, deviceVars, checkHandlers>>

\* socket.on('data'): the lines of the segment, split at 0x0A
onData(clientId, lines) ==
    /\ EventLoopIdle
    /\ clientId \in DOMAIN deviceConnections
    /\ deviceConnections[clientId].chunksRequested + Len(lines) <= MaxLines
    /\ dataEvent' = [dataEvent EXCEPT !.messages = lines]
    /\ lastResponse' = NoResponse
    /\ segmentUnchanged
    /\ UNCHANGED <<activeSessions, deviceConnections, chunksServed>>

\* messages.forEach(message => handleTcpRequest(socket, message, clientId)):
\* the call for the next line, as far as it runs before the callback has
\* it back.  A resume, and a download with an unknown session, write their
\* response; a download with a session stops at await getFirmwareChunk.
dispatch(clientId) ==
    /\ dataEvent.messages # <<>>
    /\ clientId \in DOMAIN deviceConnections
    /\ segmentUnchanged
    /\ LET message == Head(dataEvent.messages)
           seq == deviceConnections[clientId].chunksRequested + 1
           sessionId == message.sessionId
           i == SessionIndex(activeSessions, sessionId)
       IN IF ~HasSession(activeSessions, sessionId)
          THEN /\ deviceConnections' = CountRequest(deviceConnections, clientId)
               /\ dataEvent' =
                    [dataEvent EXCEPT
                       !.messages = Tail(@),
                       !.written =
                          Append(@, [seq |-> seq, request |-> message,
                                     response |-> ErrorResponse("INVALID_SESSION")])]
               /\ lastResponse' = ErrorResponse("INVALID_SESSION")
               /\ UNCHANGED <<activeSessions, chunksServed>>
          ELSE IF message.action = "resume"
          THEN /\ deviceConnections' =
                    [CountRequest(deviceConnections, clientId)
                       EXCEPT ![clientId].currentSession = sessionId]
               /\ activeSessions' =
                    [activeSessions EXCEPT ![i] = Rebind(@, clientId)]
               /\ dataEvent' =
                    [dataEvent EXCEPT
                       !.messages = Tail(@),
                       !.written =
                          Append(@, [seq |-> seq, request |-> message,
                                     response |-> ResumeResponse(activeSessions[i])])]
               /\ lastResponse' = ResumeResponse(activeSessions[i])
               /\ UNCHANGED chunksServed
          ELSE /\ deviceConnections' = CountRequest(deviceConnections, clientId)
               /\ dataEvent' =
                    [dataEvent EXCEPT
                       !.messages = Tail(@),
                       !.awaiting =
                          Append(@, [seq |-> seq, request |-> message,
                                     chunkSize |->
                                        AppliedChunkSize(0, seq, retryCount)])]
               /\ lastResponse' = NoResponse
               /\ UNCHANGED <<activeSessions, chunksServed>>

\* handleFirmwareDownload from await getFirmwareChunk on, for the call that
\* has waited longest: the session's progress, then the write
downloadReturn(clientId) ==
    /\ dataEvent.messages = <<>>
    /\ dataEvent.awaiting # <<>>
    /\ segmentUnchanged
    /\ UNCHANGED deviceConnections
    /\ LET call == Head(dataEvent.awaiting)
           i == SessionIndex(activeSessions, call.request.sessionId)
           session == activeSessions[i]
           path == session.firmwareInfo.path
       IN IF ReadFails(firmwareDir, path, call.request.offset)
          THEN /\ dataEvent' =
                    [dataEvent EXCEPT
                       !.awaiting = Tail(@),
                       !.written =
                          Append(@, [seq |-> call.seq, request |-> call.request,
                                     response |-> ErrorResponse("READ_ERROR")])]
               /\ lastResponse' = ErrorResponse("READ_ERROR")
               /\ UNCHANGED <<activeSessions, chunksServed>>
          ELSE LET response ==
                       ChunkResponse(firmwareDir, path, call.request.offset,
                                     call.chunkSize, FALSE, session.totalChunks)
               IN /\ activeSessions' =
                       [activeSessions EXCEPT
                          ![i] = RecordChunk(session, call.request.offset,
                                             response.actualSize,
                                             response.header.c)]
                  /\ chunksServed' = chunksServed + 1
                  /\ dataEvent' =
                       [dataEvent EXCEPT
                          !.awaiting = Tail(@),
                          !.written =
                             Append(@, [seq |-> call.seq,
                                        request |-> call.request,
                                        response |-> response])]
                  /\ lastResponse' = response

\* One connection: a check, then segments of one or two request lines.
NextSegment ==
    \/ \E c \in OneClient :
         totalConnections < 1 /\ Connect(c)
    \/ \E c \in OneClient, d \in OneDevice :
         /\ EventLoopIdle
         /\ c \in DOMAIN deviceConnections
         /\ deviceConnections[c].chunksRequested < MaxLines
         /\ WithinSessions(d)
         /\ handleFirmwareCheck(c, d, TRUE)
    \/ \E c \in OneClient, lines \in Segments : onData(c, lines)
    \/ \E c \in OneClient : dispatch(c)
    \/ \E c \in OneClient : downloadReturn(c)

SpecSegment == InitStocked /\ [][NextSegment]_vars

\* C37: on one connection the responses are written in the order of the
\* requests, also when several request lines arrive in one TCP segment, and
\* a later request observes the session as the earlier one left it: a
\* resume that follows a served download returns a lastOffset that covers
\* the chunk.
ResponsesInRequestOrder ==
    \A j \in 1..Len(dataEvent.written) : \A k \in 1..Len(dataEvent.written) :
        LET earlier == dataEvent.written[j]
            later == dataEvent.written[k]
        IN /\ j < k => earlier.seq < later.seq
           /\ ( /\ earlier.seq < later.seq
                /\ earlier.response.kind = "chunk"
                /\ later.response.kind = "resume"
                /\ earlier.request.sessionId = later.request.sessionId )
              => later.response.lastOffset
                    >= earlier.request.offset + earlier.response.actualSize

----------------------------------------------------------------------------
(* The chunk counter *)

\* C38: a session's downloadedChunks never exceeds its totalChunks, also
\* when the client asks for the same offset again or for chunks smaller
\* than DEFAULT_CHUNK_SIZE.
DownloadedChunksBounded ==
    \A i \in 1..Len(activeSessions) :
        activeSessions[i].downloadedChunks <= activeSessions[i].totalChunks

----------------------------------------------------------------------------
(* FotaSIM800L::connectTCP.  The modem's answer to AT+CIPSTART is a        *)
(* sequence of characters in serialAT; the loop reads one character at a   *)
(* time into response and tests response after each one, until             *)
(* AT_CONNECT_TIMEOUT has passed.  device.answer keeps what the modem was  *)
(* going to say, device.result what connectTCP returned.                   *)

\* the answers of a SIM800L to AT+CIPSTART, after its OK
ConnectOk == <<"C","O","N","N","E","C","T"," ","O","K">>
ConnectFail == <<"C","O","N","N","E","C","T"," ","F","A","I","L">>
AlreadyConnect == <<"A","L","R","E","A","D","Y"," ","C","O","N","N","E","C","T">>
ModemError == <<"E","R","R","O","R">>
ConnectWord == <<"C","O","N","N","E","C","T">>
OkLine == <<"O","K","\r","\n">>

ModemAnswers ==
    { OkLine \o ConnectOk, OkLine \o ConnectFail, OkLine \o AlreadyConnect,
      AlreadyConnect, ModemError, ConnectFail, OkLine }

\* String::indexOf(pattern) != -1
Contains(response, pattern) ==
    \E i \in 1..(Len(response) - Len(pattern) + 1) :
        SubSeq(response, i, i + Len(pattern) - 1) = pattern

\* the answer reports that the connection is there
ReportsSuccess(answer) ==
    Contains(answer, ConnectOk) \/ Contains(answer, AlreadyConnect)

ModemIdle(connected) ==
    [ pc |-> "idle", tcp_connected |-> connected, response |-> <<>>,
      answer |-> <<>>, result |-> FALSE ]

InitConnect ==
    /\ now = 0
    /\ firmwareDir = <<>>
    /\ mtimeClock = 0
    /\ activeSessions = <<>>
    /\ sessionCounter = 0
    /\ deviceConnections = <<>>
    /\ totalConnections = 0
    /\ retryCount = 0
    /\ chunksServed = 0
    /\ lastResponse = NoResponse
    /\ device = ModemIdle(FALSE)
    /\ serialAT = <<>>
    /\ reader = NoReader
    /\ delivered = <<>>
    /\ checkHandlers = <<>>
    /\ dataEvent = NoDataEvent

modemUnchanged ==
    UNCHANGED <<now, firmwareDir, mtimeClock, activeSessions, sessionCounter,
                deviceConnections, totalConnections, retryCount, chunksServed,
                lastResponse, reader, delivered, checkHandlers, dataEvent>>

\* the three tests of the loop, in their order: "success" and "fail" leave
\* the loop, "more" reads on
AnswerTested(response) ==
    IF Contains(response, ConnectOk) \/ Contains(response, ConnectWord)
    THEN "success"
    ELSE IF Contains(response, ConnectFail) \/ Contains(response, ModemError)
    THEN "fail"
    ELSE IF Contains(response, AlreadyConnect)
    THEN "success"
    ELSE "more"

\* connectTCP up to serialAT.println(cmd): the early return, the shutdown,
\* setupGPRS and AT+CIPMUX=0
connectTCP(setupOk, answer) ==
    /\ device.pc = "idle"
    /\ modemUnchanged
    /\ IF device.tcp_connected
       THEN /\ device' = [device EXCEPT !.pc = "returned", !.result = TRUE]
            /\ UNCHANGED serialAT
       ELSE IF ~setupOk
       THEN /\ device' = [device EXCEPT !.pc = "returned", !.result = FALSE]
            /\ UNCHANGED serialAT
       ELSE /\ device' = [device EXCEPT !.pc = "reading", !.answer = answer]
            /\ serialAT' = answer

\* one round of the loop with serialAT.available(): response += c, the
\* tests, and what follows the loop when a test leaves it
connectTCPRead ==
    /\ device.pc = "reading"
    /\ serialAT # <<>>
    /\ modemUnchanged
    /\ serialAT' = Tail(serialAT)
    /\ LET response == Append(device.response, Head(serialAT))
           tested == AnswerTested(response)
       IN device' =
            IF tested = "more"
            THEN [device EXCEPT !.response = response]
            ELSE [device EXCEPT
                    !.response = response,
                    !.pc = "returned",
                    !.tcp_connected = (tested = "success"),
                    !.result = (tested = "success")]

\* millis() - start >= AT_CONNECT_TIMEOUT
connectTCPTimeout ==
    /\ device.pc = "reading"
    /\ modemUnchanged
    /\ UNCHANGED serialAT
    /\ device' = [device EXCEPT !.pc = "returned", !.result = FALSE]

\* the caller goes on: it keeps the connection, or disconnectTCP
connectTCPDone(disconnect) ==
    /\ device.pc = "returned"
    /\ modemUnchanged
    /\ serialAT' = <<>>
    /\ device' = ModemIdle(IF disconnect THEN FALSE ELSE device.tcp_connected)

NextConnect ==
    \/ \E setupOk \in BOOLEAN, answer \in ModemAnswers : connectTCP(setupOk, answer)
    \/ connectTCPRead
    \/ connectTCPTimeout
    \/ \E disconnect \in BOOLEAN : connectTCPDone(disconnect)

SpecConnect == InitConnect /\ [][NextConnect]_vars

\* C39: connectTCP sets tcp_connected and returns true only if the modem's
\* answer to AT+CIPSTART reports success (CONNECT OK or ALREADY CONNECT);
\* on CONNECT FAIL, ERROR or a timeout tcp_connected stays false and it
\* returns false.
ConnectedOnlyOnSuccess ==
    (device.pc = "returned" /\ device.answer # <<>>)
        => /\ device.result = device.tcp_connected
           /\ device.result => ReportsSuccess(device.answer)

----------------------------------------------------------------------------
(* The MQTT client (FOTA.cpp).  mqttTask publishes a check while no update *)
(* is in progress, monitorTask reads the answers, fotaTask starts the      *)
(* update.  device is fotaInfo with the running FIRMWARE_VERSION;          *)
(* checkSent says that a check is on its way, requested that a chunk       *)
(* request is, writeFailed that the last Update.write was refused.  The    *)
(* broker answers every request.                                           *)

FIRMWARE_BUFFER_SIZE == 1024

\* the sizes of the artifacts the broker announces
MqttSizes == {700, 1500, 2500, 3000}

FotaInfo(firmware) ==
    [ firmware |-> firmware, version |-> "", size |-> 0,
      updateAvailable |-> FALSE, updateInProgress |-> FALSE,
      currentOffset |-> 0, checkSent |-> FALSE, requested |-> FALSE,
      writeFailed |-> FALSE ]

InitMqtt ==
    /\ now = 0
    /\ firmwareDir = <<>>
    /\ mtimeClock = 0
    /\ activeSessions = <<>>
    /\ sessionCounter = 0
    /\ deviceConnections = <<>>
    /\ totalConnections = 0
    /\ retryCount = 0
    /\ chunksServed = 0
    /\ lastResponse = NoResponse
    /\ device = FotaInfo("1.0.0")
    /\ serialAT = <<>>
    /\ reader = NoReader
    /\ delivered = <<>>
    /\ checkHandlers = <<>>
    /\ dataEvent = NoDataEvent

\* mqttTask: the periodic check, and checkFirmwareUpdate
mqttTask ==
    /\ ~device.updateInProgress
    /\ ~device.checkSent
    /\ device' = [device EXCEPT !.checkSent = TRUE]
    /\ modemUnchanged /\ UNCHANGED serialAT

\* monitorTask on MQTT_TOPIC_INFO: processFirmwareInfo
processFirmwareInfo(newVersion, size) ==
    /\ device.checkSent
    /\ modemUnchanged /\ UNCHANGED serialAT
    /\ device' =
         IF compareVersions(newVersion, device.firmware) > 0
         THEN [device EXCEPT !.checkSent = FALSE, !.version = newVersion,
                             !.size = size, !.updateAvailable = TRUE]
         ELSE [device EXCEPT !.checkSent = FALSE, !.updateAvailable = FALSE]

\* fotaTask: startOtaUpdate and its first requestFirmwareChunk
startOtaUpdate(beginOk) ==
    /\ device.updateAvailable
    /\ ~device.updateInProgress
    /\ modemUnchanged /\ UNCHANGED serialAT
    /\ device' =
         IF ~beginOk
         THEN [device EXCEPT !.updateAvailable = FALSE]
         ELSE [device EXCEPT !.updateInProgress = TRUE, !.currentOffset = 0,
                             !.requested = TRUE, !.writeFailed = FALSE]

\* Update.write(...) != binaryDataLength: a line on the console
WriteRefused(fotaInfo) ==
    [fotaInfo EXCEPT !.requested = FALSE, !.writeFailed = TRUE]

\* monitorTask when the last byte of a chunk has come: the write, the next
\* request or the MD5 test, Update.end and the restart
chunkWritten(writeOk, md5Ok, endOk) ==
    /\ device.updateInProgress
    /\ device.requested
    /\ modemUnchanged /\ UNCHANGED serialAT
    /\ LET binaryDataLength ==
               Min(FIRMWARE_BUFFER_SIZE, device.size - device.currentOffset)
           currentOffset == device.currentOffset + binaryDataLength
       IN device' =
            IF ~writeOk
            THEN WriteRefused(device)
            ELSE IF currentOffset < device.size
            THEN [device EXCEPT !.currentOffset = currentOffset]
            ELSE IF ~md5Ok
            THEN [device EXCEPT !.currentOffset = currentOffset,
                                !.requested = FALSE,
                                !.updateInProgress = FALSE]
            ELSE IF endOk
            THEN FotaInfo(device.version)
            ELSE [device EXCEPT !.currentOffset = currentOffset,
                                !.requested = FALSE]

NextMqtt ==
    \/ mqttTask
    \/ \E newVersion \in Versions, size \in MqttSizes :
         processFirmwareInfo(newVersion, size)
    \/ \E beginOk \in BOOLEAN : startOtaUpdate(beginOk)
    \/ \E writeOk, md5Ok, endOk \in BOOLEAN : chunkWritten(writeOk, md5Ok, endOk)

\* the tasks are loops that FreeRTOS keeps scheduling
SpecMqtt == InitMqtt /\ [][NextMqtt]_vars /\ WF_vars(NextMqtt)

\* C40: a failed flash write of a received chunk ends the update attempt
\* (updateInProgress is cleared), so that a later periodic check can start
\* a new one: the device does not stay for ever with updateInProgress true
\* and no chunk request on its way.
WriteFailureEndsUpdate ==
    (device.updateInProgress /\ device.writeFailed /\ ~device.requested)
        ~> ~device.updateInProgress

====
